---------------------------- MODULE Spec2Model ----------------------------
(***************************************************************************)
(* A model of rust-algorand-sdk: the address codec (accounts/address.rs),  *)
(* the mnemonic codec (accounts/mnemonics/mod.rs) and the transaction      *)
(* construction, canonical encoding and fee resolution pipeline            *)
(* (transaction/*.rs).                                                     *)
(*                                                                         *)
(* Conventions.  A byte is a number in 0..255, a byte string a sequence of *)
(* bytes, a text string a sequence of ASCII codes.  A u64 is a sequence of *)
(* 8 bytes, least significant first, because the model checker's integers *)
(* are 32 bits wide and the fee arithmetic must keep its 64-bit width.     *)
(* Results are records: [tag |-> "Ok", val |-> v], [tag |-> "Err", kind |->*)
(* k, args |-> a] and, for an abnormal abort, [tag |-> "Panic"].           *)
(***************************************************************************)
EXTENDS Integers, Sequences, FiniteSets, TLC

VARIABLES
  hashSel,   \* which hash function of the family stands for SHA-512/256
  a_pc,      \* address component: position of the caller
  a_bytes,   \* the 32-byte payload of the Address under test
  a_orig,    \* the text produced by Address::to_string
  a_str,     \* the text handed to Address::from_string
  a_mut,     \* <<position, character>> of the single-character edit, or <<>>
  a_res,     \* the result of Address::from_string
  m_pc,      \* mnemonic component: position of the caller
  m_seed,    \* the seed handed to mnemonic_from_seed
  m_src,     \* "seed": the phrase came from mnemonic_from_seed; "words": composed
  m_phrase,  \* the phrase handed to seed_from_mnemonic
  m_edit,    \* <<token position, replacement token>> of the edit, or <<>>
  m_prev,    \* the result of seed_from_mnemonic on the phrase before the edit
  m_res,     \* the latest result of mnemonic_from_seed / seed_from_mnemonic
  t_pc,      \* transaction component: position of the caller
  t_src,     \* "input": the Transaction comes from from_input; "fields": the
             \* caller filled its public fields itself
  t_in,      \* the construction input handed to Transaction::from_input, or None
  t_txn,     \* the result of Transaction::from_input, or the caller's Transaction
  t_signed,  \* the SignedTransaction returned by Transaction::sign, or None
  t_bytes    \* the bytes returned by SignedTransaction::encode, or <<>>

a_vars == <<a_pc, a_bytes, a_orig, a_str, a_mut, a_res>>
m_vars == <<m_pc, m_seed, m_src, m_phrase, m_edit, m_prev, m_res>>
t_vars == <<t_pc, t_src, t_in, t_txn, t_signed, t_bytes>>
vars == <<hashSel, a_vars, m_vars, t_vars>>

(***************************************************************************)
(* Bounds of the model.                                                    *)
(***************************************************************************)
NumHashFns == 2
NumByteSamples == 1
NumPosSamples == 1
NumIdxSamples == 1
NumAccounts == 2

(***************************************************************************)
(* Generic helpers.                                                        *)
(***************************************************************************)
Ok(v) == [tag |-> "Ok", val |-> v]
Err(kind, args) == [tag |-> "Err", kind |-> kind, args |-> args]
Panic == [tag |-> "Panic"]
Some(v) == [tag |-> "Some", val |-> v]
None == [tag |-> "None"]

IsOk(r) == r.tag = "Ok"
IsErr(r, kind) == r.tag = "Err" /\ r.kind = kind

Min(a, b) == IF a < b THEN a ELSE b

\* TRUE for every value.  The model checker defers the evaluation of an
\* operator's arguments; a loop written as a recursive operator names its
\* accumulators here so that they are computed at every iteration, as in the code.
Evaluated(v) == v = v

RECURSIVE Pow2(_)
Pow2(n) == IF n = 0 THEN 1 ELSE 2 * Pow2(n - 1)

Repeat(x, n) == [i \in 1..n |-> x]

Take(s, n) == SubSeq(s, 1, Min(n, Len(s)))
Drop(s, n) == SubSeq(s, n + 1, Len(s))

\* sum of (k * (s[k] + 1)) for k in lo..hi, modulo 2^16, by halving the range
RECURSIVE WeightedRange(_, _, _)
WeightedRange(s, lo, hi) ==
  IF lo > hi THEN 0
  ELSE IF lo = hi THEN (lo * (s[lo] + 1)) % 65536
  ELSE LET mid == (lo + hi) \div 2
       IN  (WeightedRange(s, lo, mid) + WeightedRange(s, mid + 1, hi)) % 65536

\* sum of (k * (s[k] + 1)) from position i on: the mixing step of the hash family
WeightedSum(s, i) == WeightedRange(s, i, Len(s))

(***************************************************************************)
(* The hash primitive.  Sha512Trunc256 is an external collaborator with a  *)
(* 32-byte digest; the codecs use it only as "some fixed function of the   *)
(* bytes".  It is modelled by a family of functions, one of which is fixed *)
(* by hashSel at the start of a behaviour, so that a property checked here *)
(* is checked for every member of the family.                              *)
(***************************************************************************)
DIGEST_LEN == 32

Sha512Trunc256(bytes) ==
  LET w == WeightedSum(bytes, 1) + Len(bytes) * 31
  IN  [j \in 1..DIGEST_LEN |-> ((w + hashSel * 101) * (2 * j + 1) + j * (hashSel + 7)) % 256]

(***************************************************************************)
(* encoding/mod.rs: base32_encode / base32_decode, the RFC 4648 alphabet   *)
(* without padding, as the base32 crate computes them.                     *)
(***************************************************************************)
CH_EQ == 61    \* '='
CH_0 == 48     \* '0'

\* RFC4648_ALPHABET: "ABCDEFGHIJKLMNOPQRSTUVWXYZ234567"
Rfc4648Alphabet(q) == IF q < 26 THEN 65 + q ELSE 24 + q

\* RFC4648_INV_ALPHABET, indexed by (upper-cased character - '0'); -1 is "no digit".
\* The table has 43 entries ('0'..'Z'); '=' (index 13) is listed with the value 0.
Rfc4648InvAlphabet(idx) ==
  IF idx >= 2 /\ idx <= 7 THEN 24 + idx
  ELSE IF idx = 13 THEN 0
  ELSE IF idx >= 17 /\ idx <= 42 THEN idx - 17
  ELSE -1

to_ascii_uppercase(c) == IF c >= 97 /\ c <= 122 THEN c - 32 ELSE c

\* c.to_ascii_uppercase().wrapping_sub(b'0') on a u8
InvIndex(c) == (to_ascii_uppercase(c) - CH_0 + 256) % 256

Base32Digit(c) == IF InvIndex(c) < 43 THEN Rfc4648InvAlphabet(InvIndex(c)) ELSE -1

\* the byte at position i of a chunk, 0 past its end (the zeroed buffer)
At0(s, i) == IF i <= Len(s) THEN s[i] ELSE 0

\* the 8 digits of one chunk of up to 5 bytes
EncodeChunk(b) ==
  LET b0 == At0(b, 1)  b1 == At0(b, 2)  b2 == At0(b, 3)  b3 == At0(b, 4)  b4 == At0(b, 5)
  IN  << b0 \div 8,
         ((b0 % 8) * 4) + (b1 \div 64),
         (b1 % 64) \div 2,
         ((b1 % 2) * 16) + (b2 \div 16),
         ((b2 % 16) * 2) + (b3 \div 128),
         (b3 % 128) \div 4,
         ((b3 % 4) * 8) + (b4 \div 32),
         b4 % 32 >>

RECURSIVE EncodeChunks(_)
EncodeChunks(data) ==
  IF Len(data) = 0 \/ ~Evaluated(data) THEN <<>>
  ELSE [i \in 1..8 |-> Rfc4648Alphabet(EncodeChunk(Take(data, 5))[i])]
         \o EncodeChunks(Drop(data, Min(5, Len(data))))

base32_encode(data) ==
  LET ret == EncodeChunks(data)
      num_extra == 8 - ((Len(data) % 5) * 8 + 4) \div 5
  IN  IF Len(data) % 5 # 0 THEN SubSeq(ret, 1, Len(ret) - num_extra) ELSE ret

\* the 5 bytes of one chunk of up to 8 digits (u8 shifts drop the high bits)
DecodeChunk(buf) ==
  LET d0 == At0(buf, 1)  d1 == At0(buf, 2)  d2 == At0(buf, 3)  d3 == At0(buf, 4)
      d4 == At0(buf, 5)  d5 == At0(buf, 6)  d6 == At0(buf, 7)  d7 == At0(buf, 8)
  IN  << ((d0 * 8) % 256) + (d1 \div 4),
         ((d1 * 64) % 256) + (d2 * 2) + (d3 \div 16),
         ((d3 * 16) % 256) + (d4 \div 2),
         ((d4 * 128) % 256) + (d5 * 4) + (d6 \div 8),
         ((d6 * 32) % 256) + d7 >>

RECURSIVE DecodeChunks(_)
DecodeChunks(digits) ==
  IF Len(digits) = 0 \/ ~Evaluated(digits) THEN <<>>
  ELSE DecodeChunk(Take(digits, 8)) \o DecodeChunks(Drop(digits, Min(8, Len(digits))))

\* the number of '=' among the last min(6, len) characters, counted from the end
RECURSIVE TrailingPad(_, _)
TrailingPad(data, i) ==
  IF i > Min(6, Len(data)) THEN 0
  ELSE IF data[Len(data) - i + 1] # CH_EQ THEN 0
  ELSE 1 + TrailingPad(data, i + 1)

base32_decode(data) ==
  IF \E i \in 1..Len(data) : data[i] > 127 THEN None
  ELSE
    LET unpadded_data_length == Len(data) - TrailingPad(data, 1)
        output_length == (unpadded_data_length * 5) \div 8
        digits == [i \in 1..Len(data) |-> Base32Digit(data[i])]
    IN  IF \E i \in 1..Len(data) : digits[i] = -1 THEN None
        ELSE Some(Take(DecodeChunks(digits), output_length))

(***************************************************************************)
(* accounts/address.rs                                                     *)
(***************************************************************************)
CHECKSUM_BYTES_LENGTH == 4
ADDRESS_BYTES_LENGTH == 32

\* helpers/mod.rs: ToArray<[u8; 32]>: panics below 32 bytes, and
\* copy_from_slice panics when the lengths differ
to_array(v) == IF Len(v) = 32 THEN Ok(v) ELSE Panic

\* &checksum[ADDRESS_BYTES_LENGTH - CHECKSUM_BYTES_LENGTH..]
ChecksumTail(digest) ==
  SubSeq(digest, ADDRESS_BYTES_LENGTH - CHECKSUM_BYTES_LENGTH + 1, Len(digest))

ChecksumHead(digest) == SubSeq(digest, 1, CHECKSUM_BYTES_LENGTH)

\* a variant that appends the first four digest bytes instead of the last four
Address_to_string_head(self) ==
  base32_encode(self \o ChecksumHead(Sha512Trunc256(self)))

Address_to_string(self) ==
  LET checksum == Sha512Trunc256(self)
      checksum_len_bytes == ChecksumTail(checksum)
      address_with_checksum == self \o checksum_len_bytes
  IN  base32_encode(address_with_checksum)

\* a variant that compares with the first four digest bytes
ChecksumMismatchHead(address_bytes, checksum_bytes) ==
  ChecksumHead(Sha512Trunc256(address_bytes)) # checksum_bytes

\* expected_checksum_bytes != checksum_bytes
ChecksumMismatch(address_bytes, checksum_bytes) ==
  ChecksumTail(Sha512Trunc256(address_bytes)) # checksum_bytes

Address_from_string(address_str) ==
  LET optional_address_with_checksum == base32_decode(address_str)
  IN  IF optional_address_with_checksum.tag = "None"
      THEN Err("InvalidChecksumAddress", address_str)
      ELSE
        LET address_with_checksum == optional_address_with_checksum.val
            address_length == Len(address_with_checksum)
            expected_address_length == CHECKSUM_BYTES_LENGTH + ADDRESS_BYTES_LENGTH
        IN  IF address_length # expected_address_length
            THEN Err("WrongAddressLength", <<expected_address_length, address_length>>)
            ELSE
              LET address_bytes == SubSeq(address_with_checksum, 1, ADDRESS_BYTES_LENGTH)
                  checksum_bytes == SubSeq(address_with_checksum, ADDRESS_BYTES_LENGTH + 1,
                                           Len(address_with_checksum))
              IN  IF ChecksumMismatch(address_bytes, checksum_bytes)
                  THEN Err("InvalidChecksumAddress", address_str)
                  ELSE to_array(address_bytes)

(***************************************************************************)
(* Inputs of the address component.                                        *)
(***************************************************************************)
ByteSamples == {0, 255} \cup {(k * 37) % 256 : k \in 1..NumByteSamples}
PosSamples ==
  {1, ADDRESS_BYTES_LENGTH} \cup {((k * 11) % ADDRESS_BYTES_LENGTH) + 1 : k \in 1..NumPosSamples}

\* a payload: `fill` everywhere, `v` at position `pos`
Payload(fill, pos, v) == [i \in 1..ADDRESS_BYTES_LENGTH |-> IF i = pos THEN v ELSE fill]

AddressSamples == {Payload(f, p, v) : f \in ByteSamples, p \in PosSamples, v \in ByteSamples}

\* replacement characters: upper and lower case letters, digits in and out of
\* the alphabet, the padding character, punctuation, a non-ASCII byte
MutChars == {65, 66, 97, 50, 55, 49, 56, CH_EQ, 33, 200}

ReplaceAt(s, i, c) == [k \in 1..Len(s) |-> IF k = i THEN c ELSE s[k]]

\* the components that a specification does not exercise stay idle
AddrIdle ==
  a_pc = "idle" /\ a_bytes = <<>> /\ a_orig = <<>> /\ a_str = <<>> /\ a_mut = <<>> /\ a_res = None

MnemIdle ==
  /\ m_pc = "idle" /\ m_seed = <<>> /\ m_src = "" /\ m_phrase = <<>>
  /\ m_edit = <<>> /\ m_prev = None /\ m_res = None

TxnIdle ==
  /\ t_pc = "idle" /\ t_src = "" /\ t_in = None
  /\ t_txn = None /\ t_signed = None /\ t_bytes = <<>>

AddrInit ==
  /\ hashSel \in 0..(NumHashFns - 1)
  /\ MnemIdle
  /\ TxnIdle
  /\ a_pc = "new"
  /\ a_bytes \in AddressSamples
  /\ a_orig = <<>>
  /\ a_str = <<>>
  /\ a_mut = <<>>
  /\ a_res = None

\* Address(a).to_string()
AddrToString ==
  /\ a_pc = "new"
  /\ a_orig' = Address_to_string(a_bytes)
  /\ a_str' = Address_to_string(a_bytes)
  /\ a_pc' = "encoded"
  /\ UNCHANGED <<hashSel, a_bytes, a_mut, a_res, m_vars, t_vars>>

\* the caller alters one character of the encoded text
AddrMutate ==
  /\ a_pc = "encoded"
  /\ a_mut = <<>>
  /\ \E i \in 1..Len(a_str), c \in MutChars :
       /\ c # a_str[i]
       /\ a_str' = ReplaceAt(a_str, i, c)
       /\ a_mut' = <<i, c>>
  /\ UNCHANGED <<hashSel, a_pc, a_bytes, a_orig, a_res, m_vars, t_vars>>

\* Address::from_string(a_str)
AddrFromString ==
  /\ a_pc = "encoded"
  /\ a_res' = Address_from_string(a_str)
  /\ a_pc' = "decoded"
  /\ UNCHANGED <<hashSel, a_bytes, a_orig, a_str, a_mut, m_vars, t_vars>>

AddrNext == AddrToString \/ AddrMutate \/ AddrFromString

AddrSpec == AddrInit /\ [][AddrNext]_vars

(***************************************************************************)
(* accounts/mnemonics/wordlist.rs: WORDLIST, the 2048-word dictionary in   *)
(* alphabetical order.  The file is not part of the sources at hand; the   *)
(* list is modelled as 2048 distinct three-letter words in lexicographic   *)
(* order: word number i spells i in base 16 with the letters 'a'..'p'.     *)
(***************************************************************************)
WORDLIST_LEN == 2048
CH_SPACE == 32
CH_a == 97

WORDLIST(i) == << CH_a + (i \div 256), CH_a + ((i \div 16) % 16), CH_a + (i % 16) >>

\* membership in the dictionary, and the index of a member, by spelling
WordIndex(w) == (w[1] - CH_a) * 256 + (w[2] - CH_a) * 16 + (w[3] - CH_a)

InDictionary(w) ==
  /\ Len(w) = 3
  /\ \A k \in 1..3 : w[k] >= CH_a /\ w[k] < CH_a + 16
  /\ WordIndex(w) < WORDLIST_LEN
  /\ WORDLIST(WordIndex(w)) = w

\* Ord for str: -1, 0, 1 as a is below, equal to, above b, byte by byte
RECURSIVE StrCmp(_, _, _)
StrCmp(a, b, i) ==
  IF i > Len(a) /\ i > Len(b) THEN 0
  ELSE IF i > Len(a) THEN -1
  ELSE IF i > Len(b) THEN 1
  ELSE IF a[i] < b[i] THEN -1
  ELSE IF a[i] > b[i] THEN 1
  ELSE StrCmp(a, b, i + 1)

\* WORDLIST.binary_search(word) over the entries lo..hi-1
RECURSIVE BinarySearch(_, _, _)
BinarySearch(word, lo, hi) ==
  IF lo >= hi THEN None
  ELSE LET mid == lo + ((hi - lo) \div 2)
           c == StrCmp(WORDLIST(mid), word, 1)
       IN  IF c = 0 THEN Some(mid)
           ELSE IF c < 0 THEN BinarySearch(word, mid + 1, hi)
           ELSE BinarySearch(word, lo, mid)

(***************************************************************************)
(* accounts/mnemonics/mod.rs                                               *)
(***************************************************************************)
MNEMONIC_PHRASE_WORD_COUNT == 24
SEED_BYTES_LENGTH == 32

\* bitwise or of two naturals
RECURSIVE BitOr(_, _)
BitOr(a, b) ==
  IF a = 0 THEN b
  ELSE IF b = 0 THEN a
  ELSE (IF a % 2 = 1 \/ b % 2 = 1 THEN 1 ELSE 0) + 2 * BitOr(a \div 2, b \div 2)

\* x << n on a u32: the bits shifted past bit 31 are dropped.  The checker's
\* integers end at 2^31 - 1: a result from 2^31 on stops the check with an
\* overflow error, it is never wrapped silently.
Shl32(x, n) == IF n < 2 THEN x * Pow2(n) ELSE (x % Pow2(32 - n)) * Pow2(n)

\* the position of the first space of s from position i on, Len(s) + 1 if none
NextSpace(s, i) ==
  IF \E p \in i..Len(s) : s[p] = CH_SPACE
  THEN CHOOSE p \in i..Len(s) : s[p] = CH_SPACE /\ \A q \in i..(p - 1) : s[q] # CH_SPACE
  ELSE Len(s) + 1

\* phrase.split(' ') from position i on: the pieces between single spaces,
\* empty pieces included
RECURSIVE SplitFrom(_, _)
SplitFrom(s, i) ==
  LET e == NextSpace(s, i)
  IN  IF e > Len(s) THEN << SubSeq(s, i, Len(s)) >>
      ELSE << SubSeq(s, i, e - 1) >> \o SplitFrom(s, e + 1)

\* a variant that takes a tab for a separator as well
SplitTabsToo(s) == SplitFrom([k \in 1..Len(s) |-> IF s[k] = 9 THEN CH_SPACE ELSE s[k]], 1)

Split(s) == SplitFrom(s, 1)

\* words.join(" ")
RECURSIVE Join(_)
Join(words) ==
  IF Len(words) = 0 THEN <<>>
  ELSE IF Len(words) = 1 THEN words[1]
  ELSE words[1] \o <<CH_SPACE>> \o Join(Tail(words))

\* the for loop of to_u11_array from element i on
RECURSIVE U11Loop(_, _, _, _, _)
U11Loop(arr, i, buffer, number_of_bit, output) ==
  IF i > Len(arr) \/ ~Evaluated(<<buffer, output>>)
  THEN [buffer |-> buffer, number_of_bit |-> number_of_bit, output |-> output]
  ELSE LET b1 == BitOr(buffer, Shl32(arr[i], number_of_bit))
           n1 == number_of_bit + 8
       IN  IF n1 >= 11
           THEN U11Loop(arr, i + 1, b1 \div 2048, n1 - 11, Append(output, b1 % 2048))
           ELSE U11Loop(arr, i + 1, b1, n1, output)

\* a variant that forgets the bits left over after the loop
to_u11_array_no_flush(arr) == U11Loop(arr, 1, 0, 0, <<>>).output

to_u11_array(arr) ==
  LET st == U11Loop(arr, 1, 0, 0, <<>>)
  IN  IF st.number_of_bit # 0 THEN Append(st.output, st.buffer % 2048) ELSE st.output

\* a variant of the while loop that leaves a whole byte pending
RECURSIVE FlushBytesAbove8(_, _, _)
FlushBytesAbove8(buffer, number_of_bit, output) ==
  IF number_of_bit > 8
  THEN FlushBytesAbove8(buffer \div 256, number_of_bit - 8, Append(output, buffer % 256))
  ELSE [buffer |-> buffer, number_of_bit |-> number_of_bit, output |-> output]

\* the while loop of to_byte_array
RECURSIVE FlushBytes(_, _, _)
FlushBytes(buffer, number_of_bit, output) ==
  IF number_of_bit >= 8
  THEN FlushBytes(buffer \div 256, number_of_bit - 8, Append(output, buffer % 256))
  ELSE [buffer |-> buffer, number_of_bit |-> number_of_bit, output |-> output]

\* the for loop of to_byte_array from element i on
RECURSIVE ByteLoop(_, _, _, _, _)
ByteLoop(arr, i, buffer, number_of_bit, output) ==
  IF i > Len(arr) \/ ~Evaluated(<<buffer, output>>)
  THEN [buffer |-> buffer, number_of_bit |-> number_of_bit, output |-> output]
  ELSE LET b1 == BitOr(Shl32(arr[i], number_of_bit), buffer)
           st == FlushBytes(b1, number_of_bit + 11, output)
       IN  ByteLoop(arr, i + 1, st.buffer, st.number_of_bit, st.output)

\* a variant that pushes the accumulator after the loop even when no bit is
\* pending
to_byte_array_always_flush(arr) ==
  LET st == ByteLoop(arr, 1, 0, 0, <<>>)
  IN  Append(st.output, st.buffer % 256)

to_byte_array(arr) ==
  LET st == ByteLoop(arr, 1, 0, 0, <<>>)
  IN  IF st.number_of_bit # 0 THEN Append(st.output, st.buffer % 256) ELSE st.output

apply_words(arr) == [k \in 1..Len(arr) |-> WORDLIST(arr[k])]

compute_checksum(seed) ==
  LET output == Sha512Trunc256(seed)
      u11_array == to_u11_array(SubSeq(output, 1, 2))
  IN  apply_words(u11_array)[1]

mnemonic_from_seed(seed) ==
  IF Len(seed) # SEED_BYTES_LENGTH THEN Err("InvalidSeed", <<>>)
  ELSE
    LET u11_seed == to_u11_array(seed)
        words == Join(apply_words(u11_seed))
        checksum == compute_checksum(seed)
    IN  Ok(words \o <<CH_SPACE>> \o checksum)

\* a variant of the validation loop that walks the words from the last to the first
RECURSIVE MapWordsBackwards(_, _, _)
MapWordsBackwards(words, i, u11_seed) ==
  IF i < 1 \/ ~Evaluated(u11_seed) THEN Ok(u11_seed)
  ELSE LET found == BinarySearch(words[i], 0, WORDLIST_LEN)
       IN  IF found.tag = "Some"
           THEN MapWordsBackwards(words, i - 1, <<found.val>> \o u11_seed)
           ELSE Err("InvalidPhraseWord", words[i])

ValidateWordsBackwards(words) == MapWordsBackwards(words, Len(words), <<>>)

\* the "validate phrase words" loop from word i on
RECURSIVE MapWords(_, _, _)
MapWords(words, i, u11_seed) ==
  IF i > Len(words) \/ ~Evaluated(u11_seed) THEN Ok(u11_seed)
  ELSE LET found == BinarySearch(words[i], 0, WORDLIST_LEN)
       IN  IF found.tag = "Some"
           THEN MapWords(words, i + 1, Append(u11_seed, found.val))
           ELSE Err("InvalidPhraseWord", words[i])

ValidateWords(words) == MapWords(words, 1, <<>>)

\* a variant of the last-byte test that lets every 33rd byte through
LastByteUnchecked(entropy) == FALSE

\* "if *entropy.last().unwrap() != (0x00 as u8)"
LastByteNonZero(entropy) == entropy[Len(entropy)] # 0

\* a variant of the comparison that looks only at the leading letters of the
\* given word, as many as the computed word has
ChecksumWordPrefixMismatch(computed_checksum, checksum) ==
  Take(checksum, Len(computed_checksum)) # computed_checksum

\* "if computed_checksum != *checksum"
ChecksumWordMismatch(computed_checksum, checksum) == computed_checksum # checksum

seed_from_mnemonic(phrase) ==
  LET words == Split(phrase)
      word_len == Len(words) - 1
  IN  IF word_len # MNEMONIC_PHRASE_WORD_COUNT THEN Err("InvalidPhrase", phrase)
      ELSE
        LET checksum == words[Len(words)]
            mapped == ValidateWords(SubSeq(words, 1, word_len))
        IN  IF mapped.tag = "Err" THEN mapped
            ELSE
              LET entropy == to_byte_array(mapped.val)
              IN  IF Len(entropy) # 33
                  THEN Err("GenericError", "Failed to decode mnemonic")
                  ELSE IF LastByteNonZero(entropy)
                  THEN Err("GenericError", "Failed to decode mnemonic bytes")
                  ELSE
                    LET seed == SubSeq(entropy, 1, Len(entropy) - 1)
                        computed_checksum == compute_checksum(seed)
                    IN  IF ChecksumWordMismatch(computed_checksum, checksum)
                        THEN Err("InvalidChecksum", <<>>)
                        ELSE Ok(seed)

(***************************************************************************)
(* Inputs of the mnemonic component.                                       *)
(***************************************************************************)
\* seeds of the right length, and one too short and one too long
SeedSamples ==
  {[i \in 1..SEED_BYTES_LENGTH |-> IF i = p THEN v ELSE f] :
     f \in {0, 255}, p \in PosSamples, v \in ByteSamples}
  \cup {Repeat(0, SEED_BYTES_LENGTH - 1), Repeat(255, SEED_BYTES_LENGTH + 1)}

IdxSamples == {0, 7, 8, WORDLIST_LEN - 1} \cup {(k * 683) % WORDLIST_LEN : k \in 1..NumIdxSamples}

\* tokens that are not dictionary words: a word with a letter appended, the empty
\* token, a word past the end of the list, a token with a tab, an upper-case word
NonWords ==
  { WORDLIST(0) \o <<110>>, <<>>, <<122, 122, 122>>, <<97, 9, 97>>, <<65, 65, 65>> }

TokenSamples == {WORDLIST(i) : i \in IdxSamples} \cup NonWords

\* the places of a phrase an edit touches: data words at both ends and in the
\* middle, and the checksum word
EditPositions == {1, 2, 12, 23, 24, 25}

\* the tokens an edit puts in the place of another
EditTokens ==
  {WORDLIST(i) : i \in IdxSamples \ {7, 8}} \cup { WORDLIST(0) \o <<110>>, <<>>, <<122, 122, 122>> }

MnemInit ==
  /\ hashSel \in 0..(NumHashFns - 1)
  /\ AddrIdle
  /\ TxnIdle
  /\ m_pc = "new"
  /\ \/ m_src = "seed" /\ m_seed \in SeedSamples
     \/ m_src = "words" /\ m_seed = <<>>
  /\ m_phrase = <<>>
  /\ m_edit = <<>>
  /\ m_prev = None
  /\ m_res = None

\* mnemonic_from_seed(m_seed)
MnemFromSeed ==
  /\ m_pc = "new"
  /\ m_src = "seed"
  /\ m_res' = mnemonic_from_seed(m_seed)
  /\ IF IsOk(m_res')
     THEN m_phrase' = m_res'.val /\ m_pc' = "phrase"
     ELSE m_phrase' = m_phrase /\ m_pc' = "failed"
  /\ UNCHANGED <<hashSel, a_vars, t_vars, m_seed, m_src, m_edit, m_prev>>

\* the caller writes a phrase of 25 tokens of its own: token f everywhere,
\* token v at position p
MnemCompose ==
  /\ m_pc = "new"
  /\ m_src = "words"
  /\ \E f \in TokenSamples, v \in TokenSamples, p \in {1, 2, MNEMONIC_PHRASE_WORD_COUNT, 25} :
       m_phrase' = Join([k \in 1..25 |-> IF k = p THEN v ELSE f])
  /\ m_pc' = "phrase"
  /\ UNCHANGED <<hashSel, a_vars, t_vars, m_seed, m_src, m_edit, m_prev, m_res>>

\* seed_from_mnemonic(m_phrase)
MnemDecode ==
  /\ m_pc = "phrase"
  /\ m_res' = seed_from_mnemonic(m_phrase)
  /\ m_pc' = "decoded"
  /\ UNCHANGED <<hashSel, a_vars, t_vars, m_seed, m_src, m_phrase, m_edit, m_prev>>

\* the caller replaces one token of a phrase it has decoded (one made by
\* mnemonic_from_seed, or one of its own that was accepted) by another
\* space-free string, to decode the result again
MnemReplaceToken ==
  /\ m_pc = "decoded"
  /\ m_edit = <<>>
  /\ m_src = "seed" \/ IsOk(m_res)
  /\ LET words == Split(m_phrase)
     IN  \E i \in EditPositions \cap (1..Len(words)) :
         \E tok \in EditTokens \cup {words[i] \o <<110>>} :
           /\ tok # words[i]
           /\ m_phrase' = Join(ReplaceAt(words, i, tok))
           /\ m_edit' = <<i, tok>>
  /\ m_prev' = m_res
  /\ m_pc' = "phrase"
  /\ UNCHANGED <<hashSel, a_vars, t_vars, m_seed, m_src, m_res>>

\* the ways a caller spaces a phrase differently: a second space after the first
\* word, a tab or a line feed in the place of the first space, a space before the
\* phrase, a space or a line feed after it, and the checksum word cut off with
\* the space before it left in place
Respacings == {"double", "tab", "newline", "leading", "trailing", "trailing-newline", "cut"}

Respaced(phrase, how) ==
  LET e == NextSpace(phrase, 1)
      head == SubSeq(phrase, 1, e - 1)
      rest == SubSeq(phrase, e + 1, Len(phrase))
      words == Split(phrase)
  IN  CASE how = "double" -> head \o <<CH_SPACE, CH_SPACE>> \o rest
        [] how = "tab" -> head \o <<9>> \o rest
        [] how = "newline" -> head \o <<10>> \o rest
        [] how = "leading" -> <<CH_SPACE>> \o phrase
        [] how = "trailing" -> phrase \o <<CH_SPACE>>
        [] how = "trailing-newline" -> phrase \o <<10>>
        [] how = "cut" -> Join(SubSeq(words, 1, Len(words) - 1)) \o <<CH_SPACE>>

\* the caller spaces the phrase made by mnemonic_from_seed differently before
\* decoding it
MnemRespace ==
  /\ m_pc = "phrase"
  /\ m_src = "seed"
  /\ m_edit = <<>>
  /\ \E how \in Respacings :
       /\ m_phrase' = Respaced(m_phrase, how)
       /\ m_edit' = <<0, how>>
  /\ UNCHANGED <<hashSel, a_vars, t_vars, m_pc, m_seed, m_src, m_prev, m_res>>

MnemNext == MnemFromSeed \/ MnemCompose \/ MnemRespace \/ MnemDecode \/ MnemReplaceToken

MnemSpec == MnemInit /\ [][MnemNext]_vars

(***************************************************************************)
(* Unsigned 64-bit integers (MicroAlgos, Round: "pub type MicroAlgos =     *)
(* u64"), as 8 bytes, least significant first.                             *)
(***************************************************************************)
U64_LIMBS == 8

\* the u64 of a number below 2^31
U64(n) == [i \in 1..U64_LIMBS |-> IF i <= 4 THEN (n \div Pow2(8 * (i - 1))) % 256 ELSE 0]

U64_MAX == [i \in 1..U64_LIMBS |-> 255]

\* 2^63
U64_HIGH_BIT == [i \in 1..U64_LIMBS |-> IF i = U64_LIMBS THEN 128 ELSE 0]

\* a, b compared from limb i down: -1, 0 or 1
RECURSIVE U64Cmp(_, _, _)
U64Cmp(a, b, i) ==
  IF i < 1 THEN 0
  ELSE IF a[i] < b[i] THEN -1
  ELSE IF a[i] > b[i] THEN 1
  ELSE U64Cmp(a, b, i - 1)

\* a < b
U64Less(a, b) == U64Cmp(a, b, U64_LIMBS) = -1

\* column k (from 0) of the schoolbook product of a and b, from limb i of a on
RECURSIVE ColumnSum(_, _, _, _)
ColumnSum(a, b, k, i) ==
  IF i > Min(k, U64_LIMBS - 1) THEN 0
  ELSE (IF k - i < U64_LIMBS THEN a[i + 1] * b[k - i + 1] ELSE 0) + ColumnSum(a, b, k, i + 1)

\* the 16 base-256 digits of the full product of a and b, from column k on
RECURSIVE ProductDigits(_, _, _, _, _)
ProductDigits(a, b, k, carry, out) ==
  IF k >= 2 * U64_LIMBS \/ ~Evaluated(<<carry, out>>) THEN out
  ELSE LET c == ColumnSum(a, b, k, 0) + carry
       IN  ProductDigits(a, b, k + 1, c \div 256, Append(out, c % 256))

\* the product does not fit in 64 bits
MulOverflows(a, b) ==
  LET d == ProductDigits(a, b, 0, 0, <<>>)
  IN  \E k \in (U64_LIMBS + 1)..(2 * U64_LIMBS) : d[k] # 0

\* the product modulo 2^64
wrapping_mul(a, b) == SubSeq(ProductDigits(a, b, 0, 0, <<>>), 1, U64_LIMBS)

\* "a * b" on u64: with overflow checks the build aborts on overflow, without
\* them the product wraps modulo 2^64
u64_mul(a, b, overflow_checks) ==
  IF MulOverflows(a, b) /\ overflow_checks THEN Panic ELSE Ok(wrapping_mul(a, b))

(***************************************************************************)
(* encoding/mod.rs: base64_decode / base64_encode, the standard alphabet   *)
(* with padding, as the base64 crate computes them.                        *)
(***************************************************************************)
CH_PLUS == 43
CH_SLASH == 47
CH_A == 65

B64Char(d) ==
  IF d < 26 THEN CH_A + d
  ELSE IF d < 52 THEN CH_a + (d - 26)
  ELSE IF d < 62 THEN CH_0 + (d - 52)
  ELSE IF d = 62 THEN CH_PLUS ELSE CH_SLASH

\* the 6-bit value of a character, or -1 outside the alphabet
B64Index(c) ==
  IF c >= CH_A /\ c < CH_A + 26 THEN c - CH_A
  ELSE IF c >= CH_a /\ c < CH_a + 26 THEN (c - CH_a) + 26
  ELSE IF c >= CH_0 /\ c < CH_0 + 10 THEN (c - CH_0) + 52
  ELSE IF c = CH_PLUS THEN 62
  ELSE IF c = CH_SLASH THEN 63
  ELSE -1

RECURSIVE B64EncodeChunks(_)
B64EncodeChunks(data) ==
  IF Len(data) = 0 \/ ~Evaluated(data) THEN <<>>
  ELSE LET n == Min(3, Len(data))
           v == (At0(data, 1) * 65536) + (At0(data, 2) * 256) + At0(data, 3)
           c == <<B64Char(v \div 262144), B64Char((v \div 4096) % 64),
                  B64Char((v \div 64) % 64), B64Char(v % 64)>>
       IN  (IF n = 3 THEN c
            ELSE IF n = 2 THEN <<c[1], c[2], c[3], CH_EQ>>
            ELSE <<c[1], c[2], CH_EQ, CH_EQ>>) \o B64EncodeChunks(Drop(data, 3))

base64_encode(data) == B64EncodeChunks(data)

\* the bytes of a run of 6-bit digits, 4 digits to 3 bytes; a last group of 2 or
\* 3 digits gives 1 or 2 bytes
RECURSIVE B64DecodeChunks(_)
B64DecodeChunks(digits) ==
  IF Len(digits) < 2 \/ ~Evaluated(digits) THEN <<>>
  ELSE LET n == Min(4, Len(digits))
           v == (At0(digits, 1) * 262144) + (At0(digits, 2) * 4096)
                  + (At0(digits, 3) * 64) + At0(digits, 4)
           b == <<v \div 65536, (v \div 256) % 256, v % 256>>
       IN  SubSeq(b, 1, n - 1) \o B64DecodeChunks(Drop(digits, 4))

\* the number of '=' at the end of the text
RECURSIVE B64TrailingPad(_, _)
B64TrailingPad(data, i) ==
  IF i >= 1 /\ data[i] = CH_EQ THEN 1 + B64TrailingPad(data, i - 1) ELSE 0

base64_decode(data) ==
  LET pad == B64TrailingPad(data, Len(data))
      body == SubSeq(data, 1, Len(data) - pad)
      digits == [k \in 1..Len(body) |-> B64Index(body[k])]
      rest == Len(body) % 4
      last == IF Len(body) = 0 THEN 0 ELSE digits[Len(body)]
  IN  IF \E k \in 1..Len(body) : digits[k] = -1
        THEN Err("DecodeError", "InvalidByte")
      ELSE IF pad > 2 \/ (pad > 0 /\ (Len(data) % 4) # 0)
        THEN Err("DecodeError", "InvalidByte")
      ELSE IF rest = 1
        THEN Err("DecodeError", "InvalidLength")
      ELSE IF (rest = 2 /\ (last % 16) # 0) \/ (rest = 3 /\ (last % 4) # 0)
        THEN Err("DecodeError", "InvalidLastSymbol")
      ELSE Ok(B64DecodeChunks(digits))

(***************************************************************************)
(* encoding/mod.rs: rmp_encode, the named MessagePack encoding that        *)
(* rmp_serde::encode::to_vec_named produces.  A serialised value is a      *)
(* record [t |-> kind, v |-> content]; a struct is a "map" whose content   *)
(* is the sequence of the fields that serde emits, in the order of         *)
(* declaration, each a record [key |-> text, val |-> value].               *)
(***************************************************************************)
Uint(a) == [t |-> "uint", v |-> a]
Bin(b) == [t |-> "bin", v |-> b]
Str(s) == [t |-> "str", v |-> s]
Bool(b) == [t |-> "bool", v |-> b]
Nil == [t |-> "nil", v |-> <<>>]
Map(fields) == [t |-> "map", v |-> fields]

\* a field of a struct: its key, its value, and whether skip_serializing_if holds
Field(key, val, skip) == [key |-> key, val |-> val, skip |-> skip]

\* an Option<ByteBuf> field
OptBin(o) == IF o = None THEN Nil ELSE Bin(o.val)

\* an Option<u64> field
OptUint(o) == IF o = None THEN Nil ELSE Uint(o.val)

\* the fields serde emits: all but those whose skip_serializing_if holds
RECURSIVE Emitted(_, _)
Emitted(fields, i) ==
  IF i > Len(fields) THEN <<>>
  ELSE (IF fields[i].skip THEN <<>> ELSE <<[key |-> fields[i].key, val |-> fields[i].val]>>)
         \o Emitted(fields, i + 1)

\* serialize_struct: a map of the emitted fields
Struct(fields) == Map(Emitted(fields, 1))

\* the index of the most significant non-zero limb, 0 for zero
TopLimb(a) ==
  IF \A i \in 1..U64_LIMBS : a[i] = 0 THEN 0
  ELSE CHOOSE i \in 1..U64_LIMBS : a[i] # 0 /\ \A j \in (i + 1)..U64_LIMBS : a[j] = 0

\* the n least significant limbs, most significant first
BigEndian(a, n) == [i \in 1..n |-> a[n + 1 - i]]

\* a variant that writes every unsigned integer as uint 64
write_uint_fixed_width(a) == <<207>> \o BigEndian(a, 8)

\* the shortest of positive fixint, uint 8, uint 16, uint 32, uint 64
write_uint(a) ==
  LET n == TopLimb(a)
  IN  IF n <= 1 /\ a[1] < 128 THEN <<a[1]>>
      ELSE IF n <= 1 THEN <<204, a[1]>>
      ELSE IF n = 2 THEN <<205>> \o BigEndian(a, 2)
      ELSE IF n <= 4 THEN <<206>> \o BigEndian(a, 4)
      ELSE <<207>> \o BigEndian(a, 8)

\* fixstr or str 8
write_str(s) == (IF Len(s) < 32 THEN <<160 + Len(s)>> ELSE <<217, Len(s)>>) \o s

\* bin 8 or bin 16
write_bin(b) ==
  (IF Len(b) < 256 THEN <<196, Len(b)>> ELSE <<197, Len(b) \div 256, Len(b) % 256>>) \o b

\* fixmap or map 16
write_map_len(n) == IF n < 16 THEN <<128 + n>> ELSE <<222, n \div 256, n % 256>>

RECURSIVE write_value(_), write_fields(_, _)
write_value(x) ==
  CASE x.t = "uint" -> write_uint(x.v)
    [] x.t = "bin" -> write_bin(x.v)
    [] x.t = "str" -> write_str(x.v)
    [] x.t = "bool" -> IF x.v THEN <<195>> ELSE <<194>>
    [] x.t = "nil" -> <<192>>
    [] x.t = "map" -> write_map_len(Len(x.v)) \o write_fields(x.v, 1)

write_fields(fields, i) ==
  IF i > Len(fields) THEN <<>>
  ELSE write_str(fields[i].key) \o write_value(fields[i].val) \o write_fields(fields, i + 1)

rmp_encode(data) == write_value(data)

(***************************************************************************)
(* transaction/tx_type.rs, transaction/asset.rs, transaction/mod.rs: the   *)
(* Transaction, its projection RawTransaction and their serialisation.     *)
(***************************************************************************)
DIGEST_BYTE_LENGTH == 32
MINIMUM_TX_FEE == 1000
SIGNATURE_LENGTH == 64

\* TxType::to_str: "pay", "keyreg", "acfg"
TxType_to_str(tx_type) ==
  CASE tx_type = "Payment" -> <<112, 97, 121>>
    [] tx_type = "KeyReg" -> <<107, 101, 121, 114, 101, 103>>
    [] tx_type = "AssetConfig" -> <<97, 99, 102, 103>>

\* AssetID: c (skipped when empty), i
AssetID_serialize(id) ==
  Struct(<< Field(<<99>>, Bin(id.creator), Len(id.creator) = 0),
            Field(<<105>>, Uint(id.index), FALSE) >>)

\* AssetParams: an, c, df, f, m, r, t, un, each skipped when None
AssetParams_serialize(p) ==
  Struct(<< Field(<<97, 110>>, OptBin(p.asset_name), p.asset_name = None),
            Field(<<99>>, OptBin(p.clawback), p.clawback = None),
            Field(<<100, 102>>, IF p.default_frozen = None THEN Nil ELSE Bool(p.default_frozen.val),
                  p.default_frozen = None),
            Field(<<102>>, OptBin(p.freeze), p.freeze = None),
            Field(<<109>>, OptBin(p.manager), p.manager = None),
            Field(<<114>>, OptBin(p.reserve), p.reserve = None),
            Field(<<116>>, OptUint(p.total), p.total = None),
            Field(<<117, 110>>, OptBin(p.unit_name), p.unit_name = None) >>)

\* a variant of the key table with note declared before lv:
\* amt, apar, caid, close, fee, fv, gen, gh, grp, note, lv, rcv, selkey, snd, type, votefst, votekd, votekey, votelst
RawTransactionKeys_note_before_lv ==
  << <<97, 109, 116>>,
     <<97, 112, 97, 114>>,
     <<99, 97, 105, 100>>,
     <<99, 108, 111, 115, 101>>,
     <<102, 101, 101>>,
     <<102, 118>>,
     <<103, 101, 110>>,
     <<103, 104>>,
     <<103, 114, 112>>,
     <<110, 111, 116, 101>>,
     <<108, 118>>,
     <<114, 99, 118>>,
     <<115, 101, 108, 107, 101, 121>>,
     <<115, 110, 100>>,
     <<116, 121, 112, 101>>,
     <<118, 111, 116, 101, 102, 115, 116>>,
     <<118, 111, 116, 101, 107, 100>>,
     <<118, 111, 116, 101, 107, 101, 121>>,
     <<118, 111, 116, 101, 108, 115, 116>> >>

\* the serde names of the fields of RawTransaction, in the order of declaration:
\* amt, apar, caid, close, fee, fv, gen, gh, grp, lv, note, rcv, selkey, snd, type, votefst, votekd, votekey, votelst
RawTransactionKeys ==
  << <<97, 109, 116>>,
     <<97, 112, 97, 114>>,
     <<99, 97, 105, 100>>,
     <<99, 108, 111, 115, 101>>,
     <<102, 101, 101>>,
     <<102, 118>>,
     <<103, 101, 110>>,
     <<103, 104>>,
     <<103, 114, 112>>,
     <<108, 118>>,
     <<110, 111, 116, 101>>,
     <<114, 99, 118>>,
     <<115, 101, 108, 107, 101, 121>>,
     <<115, 110, 100>>,
     <<116, 121, 112, 101>>,
     <<118, 111, 116, 101, 102, 115, 116>>,
     <<118, 111, 116, 101, 107, 100>>,
     <<118, 111, 116, 101, 107, 101, 121>>,
     <<118, 111, 116, 101, 108, 115, 116>> >>

\* the value of each field of RawTransaction and whether its skip_serializing_if
\* holds, in the order of declaration
RawTransactionValues(raw) ==
  << [val |-> OptUint(raw.amount), skip |-> raw.amount = None],
     [val |-> IF raw.asset_params = None THEN Nil ELSE AssetParams_serialize(raw.asset_params.val),
      skip |-> raw.asset_params = None],
     [val |-> IF raw.asset_id = None THEN Nil ELSE AssetID_serialize(raw.asset_id.val),
      skip |-> raw.asset_id = None],
     [val |-> OptBin(raw.close_remainder_to), skip |-> raw.close_remainder_to = None],
     [val |-> Uint(raw.fee), skip |-> FALSE],
     [val |-> Uint(raw.first_valid), skip |-> FALSE],
     [val |-> Str(raw.genesis_id), skip |-> Len(raw.genesis_id) = 0],
     [val |-> Bin(raw.genesis_hash), skip |-> FALSE],
     [val |-> OptBin(raw.group), skip |-> raw.group = None],
     [val |-> Uint(raw.last_valid), skip |-> FALSE],
     [val |-> OptBin(raw.note), skip |-> raw.note = None],
     [val |-> OptBin(raw.receiver), skip |-> raw.receiver = None],
     [val |-> OptBin(raw.selkey), skip |-> raw.selkey = None],
     [val |-> Bin(raw.sender), skip |-> FALSE],
     [val |-> Str(TxType_to_str(raw.tx_type)), skip |-> FALSE],
     [val |-> OptUint(raw.votefst), skip |-> raw.votefst = None],
     [val |-> OptUint(raw.votekd), skip |-> raw.votekd = None],
     [val |-> OptBin(raw.votekey), skip |-> raw.votekey = None],
     [val |-> OptUint(raw.votelst), skip |-> raw.votelst = None] >>

\* the fields of a struct from the table of its keys and the table of its values
Fields(keys, values) ==
  [k \in 1..Len(values) |-> Field(keys[k], values[k].val, values[k].skip)]

RawTransaction_serialize(raw) == Struct(Fields(RawTransactionKeys, RawTransactionValues(raw)))

\* Option::map
OptionMap(o, F(_)) == IF o = None THEN None ELSE Some(F(o.val))

\* Transaction::to_raw
to_raw(self) ==
  LET vote_pk(k) == k.vote_pk
      selection_pk(k) == k.selection_pk
      vote_first(k) == k.vote_first
      vote_last(k) == k.vote_last
      vote_key_dilution(k) == k.vote_key_dilution
      receiver(p) == p.receiver
      amount(p) == p.amount
      asset_id(a) == a.asset_id
  IN  [ tx_type |-> self.tx_type,
        sender |-> self.header.sender,
        fee |-> self.header.fee,
        first_valid |-> self.header.first_valid,
        last_valid |-> self.header.last_valid,
        note |-> self.header.note,
        genesis_id |-> self.header.genesis_id,
        genesis_hash |-> self.header.genesis_hash,
        group |-> self.header.group,
        votekey |-> OptionMap(self.key_reg_params, vote_pk),
        selkey |-> OptionMap(self.key_reg_params, selection_pk),
        votefst |-> OptionMap(self.key_reg_params, vote_first),
        votelst |-> OptionMap(self.key_reg_params, vote_last),
        votekd |-> OptionMap(self.key_reg_params, vote_key_dilution),
        receiver |-> OptionMap(self.payment_params, receiver),
        amount |-> OptionMap(self.payment_params, amount),
        close_remainder_to |->
          IF self.payment_params = None THEN None
          ELSE self.payment_params.val.close_remainder_to,
        asset_id |-> OptionMap(self.asset_config_params, asset_id),
        asset_params |->
          IF self.asset_config_params = None THEN None
          ELSE self.asset_config_params.val.asset_params ]

\* Transaction::with_encode_tag: "TX" before the bytes
\* a variant that puts the tag after the bytes
with_encode_tag_suffix(bytes) == bytes \o <<84, 88>>

with_encode_tag(bytes) == <<84, 88>> \o bytes

\* Transaction::to_raw_bytes
to_raw_bytes(self) == with_encode_tag(rmp_encode(RawTransaction_serialize(to_raw(self))))

\* a variant whose signature has a length that depends on the key
Account_sign_variable_length(account, message) ==
  LET w == WeightedSum(message, 1)
  IN  [j \in 1..(SIGNATURE_LENGTH + account) |-> ((w + (account * 89)) * ((2 * j) + 1)) % 256]

\* Account::sign: the Ed25519 signature is an external collaborator with a
\* 64-byte result; it is modelled by a fixed function of the key and the message
Account_sign(account, message) ==
  LET w == WeightedSum(message, 1)
  IN  [j \in 1..SIGNATURE_LENGTH |-> (((w + (account * 89)) * ((2 * j) + 1)) + (j * account)) % 256]

\* "let x = v; body": v is computed once and named
Let(v, Body(_)) == Body(v)

\* Transaction::sign
sign(self, account) ==
  Let(to_raw_bytes(self), LAMBDA bytes_to_sign :
    [ txn_id |-> base32_encode(Sha512Trunc256(bytes_to_sign)),
      signature |-> Account_sign(account, bytes_to_sign),
      transaction |-> to_raw(self),
      multisig_sig |-> None ])

\* SignedTransaction: msig (skipped when None), sig, txn; txn_id is never emitted
SignedTransaction_serialize(st) ==
  Struct(<< Field(<<109, 115, 105, 103>>, OptBin(st.multisig_sig), st.multisig_sig = None),
            Field(<<115, 105, 103>>, Bin(st.signature), FALSE),
            Field(<<116, 120, 110>>, RawTransaction_serialize(st.transaction), FALSE) >>)

\* SignedTransaction::encode
SignedTransaction_encode(self) == rmp_encode(SignedTransaction_serialize(self))

\* Transaction::estimate_size, with the account that Account::generate() drew
estimate_size(self, account) == U64(Len(SignedTransaction_encode(sign(self, account))))

(***************************************************************************)
(* transaction/inputs/mod.rs and Transaction::from_input.  An input is a   *)
(* record whose field kind names its struct.                               *)
(***************************************************************************)

\* "let x = r?; rest": an error (or an abort) of r ends the function with it,
\* otherwise the rest runs with the value of r
Try(r, Rest(_)) == IF IsOk(r) THEN Rest(r.val) ELSE r

\* a variant of the type tag in which every input builds a payment header
InputTxType_always_payment(input) == "Payment"

\* the $type argument of build_header_impl! in each impl of TransactionInput
InputTxType(input) ==
  CASE input.kind = "PaymentTransactionInput" -> "Payment"
    [] input.kind = "KeyRegTransactionInput" -> "KeyReg"
    [] input.kind = "AssetConfigTransactionInput" -> "AssetConfig"

\* a variant of build_header that refuses only a genesis hash shorter than 32 bytes
build_header_min_length(input) ==
  Try(base64_decode(input.genesis_hash), LAMBDA genesis_hash :
    IF Len(genesis_hash) = 0
      THEN Err("GenericError", <<"Genesis hash required">>)
    ELSE IF Len(genesis_hash) < DIGEST_BYTE_LENGTH
      THEN Err("GenericError", <<"Expected genesis hash to be {} bytes but got {}",
                                 DIGEST_BYTE_LENGTH, Len(genesis_hash)>>)
    ELSE
      Try(Address_from_string(input.from), LAMBDA sender :
      Try(to_array(genesis_hash), LAMBDA hash :
        Ok(<< InputTxType(input),
              [ sender |-> sender,
                fee |-> input.fee,
                first_valid |-> input.first_round,
                last_valid |-> input.last_round,
                note |-> input.note,
                genesis_id |-> input.genesis_id,
                genesis_hash |-> hash,
                group |-> None ] >>))))

\* build_header, the same in the three impls
build_header(input) ==
  Try(base64_decode(input.genesis_hash), LAMBDA genesis_hash :
    IF Len(genesis_hash) = 0
      THEN Err("GenericError", <<"Genesis hash required">>)
    ELSE IF Len(genesis_hash) # DIGEST_BYTE_LENGTH
      THEN Err("GenericError", <<"Expected genesis hash to be {} bytes but got {}",
                                 DIGEST_BYTE_LENGTH, Len(genesis_hash)>>)
    ELSE
      Try(Address_from_string(input.from), LAMBDA sender :
      Try(to_array(genesis_hash), LAMBDA hash :
        Ok(<< InputTxType(input),
              [ sender |-> sender,
                fee |-> input.fee,
                first_valid |-> input.first_round,
                last_valid |-> input.last_round,
                note |-> input.note,
                genesis_id |-> input.genesis_id,
                genesis_hash |-> hash,
                group |-> None ] >>))))

\* Some(Address::from_string(text)?) for a text that is given, None otherwise
OptionalAddress(o) ==
  IF o = None THEN Ok(None)
  ELSE Try(Address_from_string(o.val), LAMBDA a : Ok(Some(a)))

\* build_payment_params: Ok(None) by default, overridden by PaymentTransactionInput
build_payment_params(input) ==
  IF input.kind # "PaymentTransactionInput" THEN Ok(None)
  ELSE
    Try(OptionalAddress(input.close_remainder_to), LAMBDA close_remainder_to_addr :
    Try(Address_from_string(input.to), LAMBDA receiver :
      Ok(Some([ receiver |-> receiver,
                amount |-> input.amount,
                close_remainder_to |-> close_remainder_to_addr ]))))

\* build_key_reg_params: Ok(None) by default, overridden by KeyRegTransactionInput
build_key_reg_params(input) ==
  IF input.kind # "KeyRegTransactionInput" THEN Ok(None)
  ELSE
    Try(base64_decode(input.vote_pk), LAMBDA vote_pk :
    Try(base64_decode(input.selection_pk), LAMBDA selection_pk :
    Try(to_array(vote_pk), LAMBDA vote_pk_array :
    Try(to_array(selection_pk), LAMBDA selection_pk_array :
      Ok(Some([ vote_pk |-> vote_pk_array,
                selection_pk |-> selection_pk_array,
                vote_first |-> input.vote_first,
                vote_last |-> input.vote_last,
                vote_key_dilution |-> input.vote_key_dilution ]))))))

\* AssetParams::default()
AssetParams_default ==
  [ asset_name |-> None, clawback |-> None, default_frozen |-> None, freeze |-> None,
    manager |-> None, reserve |-> None, total |-> None, unit_name |-> None ]

\* a variant of build_asset_config_params whose clawback branch forgets to set
\* asset_exists
build_asset_config_params_clawback_unflagged(input) ==
  IF input.kind # "AssetConfigTransactionInput" THEN Ok(None)
  ELSE
    Try(OptionalAddress(input.manager), LAMBDA manager :
    Try(OptionalAddress(input.reserve), LAMBDA reserve :
    Try(OptionalAddress(input.freeze), LAMBDA freeze :
    Try(OptionalAddress(input.clawback), LAMBDA clawback :
    Try(Address_from_string(input.creator), LAMBDA creator :
      Ok(Some([ asset_id |-> [creator |-> creator, index |-> input.index],
                asset_params |->
                  IF \/ input.manager # None \/ input.reserve # None
                     \/ input.freeze # None
                  THEN Some([AssetParams_default EXCEPT
                               !.manager = manager, !.reserve = reserve,
                               !.freeze = freeze, !.clawback = clawback])
                  ELSE None ])))))))

\* build_asset_config_params: Ok(None) by default, overridden by
\* AssetConfigTransactionInput
build_asset_config_params(input) ==
  IF input.kind # "AssetConfigTransactionInput" THEN Ok(None)
  ELSE
    Try(OptionalAddress(input.manager), LAMBDA manager :
    Try(OptionalAddress(input.reserve), LAMBDA reserve :
    Try(OptionalAddress(input.freeze), LAMBDA freeze :
    Try(OptionalAddress(input.clawback), LAMBDA clawback :
    Try(Address_from_string(input.creator), LAMBDA creator :
      Ok(Some([ asset_id |-> [creator |-> creator, index |-> input.index],
                asset_params |->
                  IF \/ input.manager # None \/ input.reserve # None
                     \/ input.freeze # None \/ input.clawback # None
                  THEN Some([AssetParams_default EXCEPT
                               !.manager = manager, !.reserve = reserve,
                               !.freeze = freeze, !.clawback = clawback])
                  ELSE None ])))))))

\* a variant of modify_final_transaction whose raise to the minimum fee also
\* overwrites the first valid round
modify_final_transaction_clobbers_round(input, transaction, account, overflow_checks) ==
  Try(IF input.is_flat_fee THEN Ok(input.fee)
      ELSE u64_mul(estimate_size(transaction, account), input.fee, overflow_checks),
      LAMBDA fee :
        IF U64Less(fee, U64(MINIMUM_TX_FEE))
        THEN Ok([transaction EXCEPT !.header.fee = U64(MINIMUM_TX_FEE),
                                    !.header.first_valid = U64(MINIMUM_TX_FEE)])
        ELSE Ok([transaction EXCEPT !.header.fee = fee]))

\* modify_final_transaction, the same in the three impls; account is the key that
\* Account::generate() draws inside estimate_size
modify_final_transaction(input, transaction, account, overflow_checks) ==
  Try(IF input.is_flat_fee THEN Ok(input.fee)
      ELSE u64_mul(estimate_size(transaction, account), input.fee, overflow_checks),
      LAMBDA fee :
        IF U64Less(fee, U64(MINIMUM_TX_FEE))
        THEN Ok([transaction EXCEPT !.header.fee = U64(MINIMUM_TX_FEE)])
        ELSE Ok([transaction EXCEPT !.header.fee = fee]))

\* Transaction::from_input
from_input(input, account, overflow_checks) ==
  Try(build_header(input), LAMBDA built :
  Try(build_payment_params(input), LAMBDA payment_params :
  Try(build_key_reg_params(input), LAMBDA key_reg_params :
  Try(build_asset_config_params(input), LAMBDA asset_config_params :
    modify_final_transaction(
      input,
      [ tx_type |-> built[1],
        header |-> built[2],
        payment_params |-> payment_params,
        key_reg_params |-> key_reg_params,
        asset_config_params |-> asset_config_params ],
      account, overflow_checks)))))

(***************************************************************************)
(* Inputs of the transaction component.                                    *)
(***************************************************************************)
\* the accounts that sign: the keys Account::generate() can draw and the keys
\* of the caller
Accounts == 1..NumAccounts

\* 32 bytes, different for different k
TxnPayload(k) == [i \in 1..ADDRESS_BYTES_LENGTH |-> (i * k) % 256]

\* a valid address text
GoodAddress(k) == Address_to_string(TxnPayload(k))

\* an address text with a wrong checksum
BadAddress ==
  LET s == GoodAddress(1) IN ReplaceAt(s, 1, IF s[1] = CH_A THEN CH_A + 1 ELSE CH_A)

\* the sender: valid, wrong checksum, or empty (decodes to 0 bytes)
FromSamples == {GoodAddress(1), BadAddress, <<>>}

GoodGenesisHash == base64_encode(TxnPayload(5))

\* the genesis hash: 32 bytes, empty, 3 bytes, 33 bytes, or not base64 at all ("!!!!")
GenesisHashSamples ==
  { GoodGenesisHash, <<>>, base64_encode(<<1, 2, 3>>), base64_encode(TxnPayload(5) \o <<1>>),
    <<33, 33, 33, 33>> }

\* a participation key: 32 bytes, 3 bytes, or not base64 at all
KeySamples == {base64_encode(TxnPayload(7)), base64_encode(<<1, 2, 3>>), <<33, 33, 33, 33>>}

\* fee values: below, at and above the minimum, and rates whose product with a
\* size exceeds 64 bits
FeeSamples == {U64(0), U64(4), U64(MINIMUM_TX_FEE), U64(100000), U64_HIGH_BIT, U64_MAX}

\* rounds and amounts encoded in 1 byte and in 9 bytes
RoundSamples == {U64(51), U64_MAX}

NoteSamples == {None, Some(<<>>), Some(<<234, 0, 21>>)}

\* "" and "dev"
GenesisIdSamples == {<<>>, <<100, 101, 118>>}

\* the fields the three input structs share
Common(from, fee, round, note, genesis_id, genesis_hash, is_flat_fee) ==
  [ from |-> from, fee |-> fee, first_round |-> round, last_round |-> round, note |-> note,
    genesis_id |-> genesis_id, genesis_hash |-> genesis_hash, is_flat_fee |-> is_flat_fee ]

\* valid shared fields of every shape
ValidCommons ==
  {Common(GoodAddress(1), f, r, n, g, GoodGenesisHash, b) :
     f \in FeeSamples, r \in RoundSamples, n \in NoteSamples, g \in GenesisIdSamples,
     b \in BOOLEAN}

\* valid shared fields of one shape
PlainCommons ==
  {Common(GoodAddress(1), f, U64(51), None, <<>>, GoodGenesisHash, b) :
     f \in FeeSamples, b \in BOOLEAN}

\* shared fields with a defect in the sender, in the genesis hash, in both or in none
DefectCommons ==
  {Common(a, U64(4), U64(51), None, <<>>, h, FALSE) :
     a \in FromSamples, h \in GenesisHashSamples}

PaymentTransactionInput(c, to, amount, close_remainder_to) ==
  [ kind |-> "PaymentTransactionInput",
    from |-> c.from, fee |-> c.fee, first_round |-> c.first_round,
    last_round |-> c.last_round, note |-> c.note, genesis_id |-> c.genesis_id,
    genesis_hash |-> c.genesis_hash, is_flat_fee |-> c.is_flat_fee,
    to |-> to, amount |-> amount, close_remainder_to |-> close_remainder_to ]

KeyRegTransactionInput(c, vote_pk, selection_pk) ==
  [ kind |-> "KeyRegTransactionInput",
    from |-> c.from, fee |-> c.fee, first_round |-> c.first_round,
    last_round |-> c.last_round, note |-> c.note, genesis_id |-> c.genesis_id,
    genesis_hash |-> c.genesis_hash, is_flat_fee |-> c.is_flat_fee,
    vote_pk |-> vote_pk, selection_pk |-> selection_pk,
    vote_first |-> U64(10000), vote_last |-> c.last_round, vote_key_dilution |-> U64(11) ]

AssetConfigTransactionInput(c, creator, manager, reserve, freeze, clawback) ==
  [ kind |-> "AssetConfigTransactionInput",
    from |-> c.from, fee |-> c.fee, first_round |-> c.first_round,
    last_round |-> c.last_round, note |-> c.note, genesis_id |-> c.genesis_id,
    genesis_hash |-> c.genesis_hash, is_flat_fee |-> c.is_flat_fee,
    creator |-> creator, index |-> U64(1234),
    manager |-> manager, reserve |-> reserve, freeze |-> freeze, clawback |-> clawback ]

PaymentInputs ==
  {PaymentTransactionInput(c, GoodAddress(2), U64(1000), cl) :
     c \in ValidCommons, cl \in {None, Some(GoodAddress(3))}}
  \cup
  {PaymentTransactionInput(c, to, U64(1000), cl) :
     c \in DefectCommons, to \in {GoodAddress(2), BadAddress},
     cl \in {None, Some(GoodAddress(3)), Some(BadAddress)}}
  \cup
  {PaymentTransactionInput(
     Common(a, U64_HIGH_BIT, U64(51), None, <<>>, GoodGenesisHash, FALSE), to, U64(1000), None) :
     a \in FromSamples, to \in {GoodAddress(2), BadAddress}}

KeyRegInputs ==
  {KeyRegTransactionInput(c, base64_encode(TxnPayload(7)), base64_encode(TxnPayload(11))) :
     c \in ValidCommons}
  \cup
  {KeyRegTransactionInput(c, v, s) : c \in DefectCommons, v \in KeySamples, s \in KeySamples}

AssetConfigInputs ==
  {AssetConfigTransactionInput(c, GoodAddress(2), m, r, f, cb) :
     c \in PlainCommons, m \in {None, Some(GoodAddress(3))}, r \in {None, Some(GoodAddress(4))},
     f \in {None, Some(GoodAddress(5))}, cb \in {None, Some(GoodAddress(6))}}
  \cup
  {AssetConfigTransactionInput(c, cr, m, None, None, cb) :
     c \in DefectCommons, cr \in {GoodAddress(2), BadAddress},
     m \in {None, Some(BadAddress)}, cb \in {None, Some(GoodAddress(6)), Some(<<>>)}}

TxnInputs == PaymentInputs \cup KeyRegInputs \cup AssetConfigInputs

\* Transactions whose public fields the caller filled itself: any combination of
\* the three parameter blocks, a group, every asset parameter
FieldTransactions ==
  LET header(n, g) ==
        [ sender |-> TxnPayload(1), fee |-> U64(MINIMUM_TX_FEE), first_valid |-> U64(51),
          last_valid |-> U64(61), note |-> n,
          genesis_id |-> IF n = None THEN <<>> ELSE <<100, 101, 118>>,
          genesis_hash |-> TxnPayload(5), group |-> g ]
      pay(cl) == [receiver |-> TxnPayload(2), amount |-> U64(847), close_remainder_to |-> cl]
      keyreg == [ vote_pk |-> TxnPayload(7), selection_pk |-> TxnPayload(11),
                  vote_first |-> U64(1), vote_last |-> U64(2), vote_key_dilution |-> U64(3) ]
      all_params ==
        [ asset_name |-> Some(<<97>>), clawback |-> Some(TxnPayload(6)),
          default_frozen |-> Some(FALSE), freeze |-> Some(TxnPayload(5)),
          manager |-> Some(TxnPayload(3)), reserve |-> Some(TxnPayload(4)),
          total |-> Some(U64(100)), unit_name |-> Some(<<117>>) ]
      some_params ==
        [AssetParams_default EXCEPT !.asset_name = Some(<<97>>), !.unit_name = Some(<<98>>)]
  IN  {[ tx_type |-> ty, header |-> header(n, g), payment_params |-> p, key_reg_params |-> k,
         asset_config_params |-> a ] :
         ty \in {"Payment", "AssetConfig"},
         n \in {None, Some(<<234>>)},
         g \in {None, Some(TxnPayload(9))},
         p \in {None, Some(pay(None)), Some(pay(Some(TxnPayload(3))))},
         k \in {None, Some(keyreg)},
         a \in {None,
                Some([asset_id |-> [creator |-> <<>>, index |-> U64(0)], asset_params |-> None]),
                Some([asset_id |-> [creator |-> TxnPayload(2), index |-> U64(1234)],
                      asset_params |-> Some(all_params)]),
                Some([asset_id |-> [creator |-> TxnPayload(2), index |-> U64(1234)],
                      asset_params |-> Some(some_params)])}}

(***************************************************************************)
(* The transaction component as a state machine.                           *)
(***************************************************************************)
TxnInit ==
  /\ hashSel \in 0..(NumHashFns - 1)
  /\ AddrIdle
  /\ MnemIdle
  /\ \/ /\ t_src = "input"
        /\ t_pc = "input"
        /\ t_in \in TxnInputs
        /\ t_txn = None
     \/ /\ t_src = "fields"
        /\ t_pc = "built"
        /\ t_in = None
        /\ t_txn \in {Ok(t) : t \in FieldTransactions}
  /\ t_signed = None
  /\ t_bytes = <<>>

\* Transaction::from_input(t_in), in a build with or without overflow checks,
\* with the account that Account::generate() draws
TxnFromInput ==
  /\ t_pc = "input"
  /\ \E account \in Accounts, overflow_checks \in BOOLEAN :
       t_txn' = from_input(t_in, account, overflow_checks)
  /\ t_pc' = IF IsOk(t_txn') THEN "built" ELSE "failed"
  /\ UNCHANGED <<hashSel, a_vars, m_vars, t_src, t_in, t_signed, t_bytes>>

\* txn.sign(&account)
TxnSign ==
  /\ t_pc = "built"
  /\ \E account \in Accounts : t_signed' = Some(sign(t_txn.val, account))
  /\ t_pc' = "signed"
  /\ UNCHANGED <<hashSel, a_vars, m_vars, t_src, t_in, t_txn, t_bytes>>

\* signed_txn.encode()
TxnEncode ==
  /\ t_pc = "signed"
  /\ t_bytes' = SignedTransaction_encode(t_signed.val)
  /\ t_pc' = "encoded"
  /\ UNCHANGED <<hashSel, a_vars, m_vars, t_src, t_in, t_txn, t_signed>>

TxnNext == TxnFromInput \/ TxnSign \/ TxnEncode

TxnSpec == TxnInit /\ [][TxnNext]_vars

(***************************************************************************)
(* Properties of the address codec.                                        *)
(***************************************************************************)

\* C1: for every 32-byte payload a, Address::from_string(Address(a).to_string())
\* succeeds and returns an Address whose bytes are a.
C1_AddressRoundTrip ==
  (a_pc = "decoded" /\ a_mut = <<>>) => (IsOk(a_res) /\ a_res.val = a_bytes)

\* a payload with a byte that is neither 0 nor 255 was encoded to 58 characters
\* and decoded back
C1_Witness ==
  /\ a_pc = "decoded"
  /\ a_mut = <<>>
  /\ Len(a_str) = 58
  /\ \E i \in 1..ADDRESS_BYTES_LENGTH : a_bytes[i] \notin {0, 255}
  /\ IsOk(a_res)

\* the decoded text splits into a payload and a checksum that the hash of the
\* payload matches
MutatedChecksumCollides ==
  LET d == base32_decode(a_str)
  IN  /\ d.tag = "Some"
      /\ Len(d.val) >= ADDRESS_BYTES_LENGTH
      /\ ~ChecksumMismatch(SubSeq(d.val, 1, ADDRESS_BYTES_LENGTH),
                           SubSeq(d.val, ADDRESS_BYTES_LENGTH + 1, Len(d.val)))

\* C3: replacing any one character of a valid encoded address by a different
\* character makes Address::from_string fail with InvalidChecksumAddress, unless
\* the hash of the mutated payload matches the mutated checksum.
C3_SingleCharRejected ==
  (a_pc = "decoded" /\ a_mut # <<>>) =>
    (IsErr(a_res, "InvalidChecksumAddress") \/ MutatedChecksumCollides)

\* C11: Address::from_string returns InvalidChecksumAddress(text) when base-32
\* decoding fails; otherwise WrongAddressLength(36, n) when the decoded length n
\* is not 36; otherwise InvalidChecksumAddress(text) when the last 4 bytes differ
\* from the last 4 bytes of the hash of the first 32; and succeeds, with those 32
\* bytes, in exactly the remaining case.
C11_AddressDecodeErrors ==
  a_pc = "decoded" =>
    LET d == base32_decode(a_str)
    IN  IF d.tag = "None"
        THEN IsErr(a_res, "InvalidChecksumAddress") /\ a_res.args = a_str
        ELSE IF Len(d.val) # 36
        THEN IsErr(a_res, "WrongAddressLength") /\ a_res.args = <<36, Len(d.val)>>
        ELSE IF SubSeq(d.val, 33, 36) # SubSeq(Sha512Trunc256(SubSeq(d.val, 1, 32)), 29, 32)
        THEN IsErr(a_res, "InvalidChecksumAddress") /\ a_res.args = a_str
        ELSE IsOk(a_res) /\ a_res.val = SubSeq(d.val, 1, 32)

\* a text that decodes to 36 bytes with a wrong checksum was refused
C11_Witness ==
  /\ a_pc = "decoded"
  /\ a_mut # <<>>
  /\ base32_decode(a_str).tag = "Some"
  /\ Len(base32_decode(a_str).val) = 36
  /\ IsErr(a_res, "InvalidChecksumAddress")

\* a text that base-32 decoding refuses
C11_WitnessUndecodable ==
  a_pc = "decoded" /\ base32_decode(a_str).tag = "None" /\ IsErr(a_res, "InvalidChecksumAddress")

\* a text that decodes to 35 bytes
C11_WitnessWrongLength ==
  a_pc = "decoded" /\ IsErr(a_res, "WrongAddressLength") /\ a_res.args = <<36, 35>>

(***************************************************************************)
(* Properties of the mnemonic codec.                                       *)
(***************************************************************************)

\* C2: for every 32-byte seed s, seed_from_mnemonic(mnemonic_from_seed(s))
\* succeeds and returns exactly s, whichever hash function of the family
\* computes the checksum word.
C2_MnemonicRoundTrip ==
  (m_pc = "decoded" /\ m_src = "seed" /\ m_edit = <<>>) =>
    (IsOk(m_res) /\ m_res.val = m_seed)

\* a seed whose last byte is neither 0 nor 255 came back from its phrase
C2_Witness ==
  /\ m_pc = "decoded" /\ m_src = "seed" /\ m_edit = <<>>
  /\ Len(m_seed) = SEED_BYTES_LENGTH
  /\ m_seed[SEED_BYTES_LENGTH] \notin {0, 255}
  /\ Len(Split(m_phrase)) = 25
  /\ IsOk(m_res)

\* C4: for every phrase seed_from_mnemonic accepts, replacing its 25th token by
\* any different space-free string makes seed_from_mnemonic fail with
\* InvalidChecksum.
C4_ChecksumWordRejected ==
  (m_pc = "decoded" /\ m_edit # <<>> /\ m_edit[1] = 25 /\ IsOk(m_prev)) =>
    IsErr(m_res, "InvalidChecksum")

\* the checksum word of an accepted phrase was replaced by that word with a
\* letter appended, and the phrase was decoded again
C4_Witness ==
  /\ m_pc = "decoded" /\ m_edit # <<>> /\ m_edit[1] = 25 /\ IsOk(m_prev)
  /\ m_edit[2] = compute_checksum(m_prev.val) \o <<110>>
  /\ IsErr(m_res, "InvalidChecksum")

\* the first 24 tokens of the phrase, when it has exactly 25
DataTokens == SubSeq(Split(m_phrase), 1, MNEMONIC_PHRASE_WORD_COUNT)

HasInvalidDataWord ==
  /\ Len(Split(m_phrase)) = 25
  /\ \E i \in 1..MNEMONIC_PHRASE_WORD_COUNT : ~InDictionary(DataTokens[i])

FirstInvalidDataWord ==
  DataTokens[CHOOSE i \in 1..MNEMONIC_PHRASE_WORD_COUNT :
               /\ ~InDictionary(DataTokens[i])
               /\ \A j \in 1..(i - 1) : InDictionary(DataTokens[j])]

\* C5: for every 25-token phrase in which one of the first 24 tokens is not in the
\* dictionary, seed_from_mnemonic fails with InvalidPhraseWord carrying the first
\* such token, whatever the other words and the checksum word are.
C5_InvalidDataWord ==
  (m_pc = "decoded" /\ HasInvalidDataWord) =>
    (IsErr(m_res, "InvalidPhraseWord") /\ m_res.args = FirstInvalidDataWord)

\* a phrase with two different tokens outside the dictionary among its first 24
\* was decoded
C5_Witness ==
  /\ m_pc = "decoded" /\ HasInvalidDataWord
  /\ \E i, j \in 1..MNEMONIC_PHRASE_WORD_COUNT :
        /\ i < j /\ DataTokens[i] # DataTokens[j]
        /\ ~InDictionary(DataTokens[i]) /\ ~InDictionary(DataTokens[j])
  /\ IsErr(m_res, "InvalidPhraseWord")

\* white space: space, tab, line feed, carriage return
IsWhitespace(c) == c \in {CH_SPACE, 9, 10, 13}

\* the words of s from position i on when it is split on white space: the
\* maximal runs of other characters
RECURSIVE WhitespaceWordsFrom(_, _)
WhitespaceWordsFrom(s, i) ==
  IF i > Len(s) THEN <<>>
  ELSE IF IsWhitespace(s[i]) THEN WhitespaceWordsFrom(s, i + 1)
  ELSE LET stops == {p \in i..Len(s) : IsWhitespace(s[p])}
           e == IF stops = {} THEN Len(s) + 1
                ELSE CHOOSE p \in stops : \A q \in stops : p <= q
       IN  <<SubSeq(s, i, e - 1)>> \o WhitespaceWordsFrom(s, e)

WhitespaceWords(s) == WhitespaceWordsFrom(s, 1)

\* C12: seed_from_mnemonic splits the phrase on white space and returns
\* InvalidPhrase exactly when the number of words is not 25; a phrase whose 25
\* words are separated by any white space (several spaces, a tab, white space
\* before or after) is treated as its single-space form is.
C12_WhitespaceTokenisation ==
  m_pc = "decoded" =>
    LET words == WhitespaceWords(m_phrase)
    IN  /\ IsErr(m_res, "InvalidPhrase") <=> (Len(words) # 25)
        /\ Len(words) = 25 => m_res = seed_from_mnemonic(Join(words))

\* the phrase has exactly 25 space-separated tokens, the first 24 of them
\* dictionary words
WellFormedPhrase ==
  /\ Len(Split(m_phrase)) = 25
  /\ \A i \in 1..MNEMONIC_PHRASE_WORD_COUNT : InDictionary(DataTokens[i])

\* C10 as stated: on a phrase of 25 tokens whose first 24 are dictionary words,
\* seed_from_mnemonic never returns GenericError: it returns Ok or InvalidChecksum.
C10_NoGenericError ==
  (m_pc = "decoded" /\ WellFormedPhrase) =>
    (IsOk(m_res) \/ IsErr(m_res, "InvalidChecksum"))

\* C10 as amended: on such a phrase seed_from_mnemonic returns GenericError exactly
\* when the index of the 24th word is 8 or more (the 33rd unpacked byte is then
\* not zero), always with the message of the last-byte check and never that of
\* the length check; otherwise it returns Ok or InvalidChecksum.
C10_GenericErrorOnlyForHighLastWord ==
  (m_pc = "decoded" /\ WellFormedPhrase) =>
    IF WordIndex(DataTokens[MNEMONIC_PHRASE_WORD_COUNT]) >= 8
    THEN IsErr(m_res, "GenericError") /\ m_res.args = "Failed to decode mnemonic bytes"
    ELSE IsOk(m_res) \/ IsErr(m_res, "InvalidChecksum")

\* a well-formed phrase whose 24th word has index 8 was refused with GenericError
C10_Witness ==
  /\ m_pc = "decoded" /\ WellFormedPhrase
  /\ WordIndex(DataTokens[MNEMONIC_PHRASE_WORD_COUNT]) = 8
  /\ IsErr(m_res, "GenericError")

(***************************************************************************)
(* Properties of transaction construction and encoding.                    *)
(***************************************************************************)

\* from_input has returned
Returned == t_src = "input" /\ t_pc \in {"built", "failed"}

\* the decoded genesis hash of the input, when it decodes
DecodedGenesisHash == base64_decode(t_in.genesis_hash)

\* a GenericError whose message names the expected length 32
NamesExpectedLength(r) ==
  IsErr(r, "GenericError") /\ Len(r.args) = 3 /\ r.args[2] = 32

\* C13 as stated: for every input variant a GenericError naming the expected
\* length 32 is returned whenever the decoded genesis hash is empty or has a
\* length other than 32, and a header is built only when it has exactly 32
\* bytes, which are stored unchanged in header.genesis_hash.
C13_GenesisHashErrorNamesLength ==
  (Returned /\ IsOk(DecodedGenesisHash)) =>
    /\ Len(DecodedGenesisHash.val) # 32 => NamesExpectedLength(t_txn)
    /\ IsOk(t_txn) => t_txn.val.header.genesis_hash = DecodedGenesisHash.val

\* C13 as amended: an empty decoded genesis hash gives GenericError("Genesis hash
\* required"), which names no length; a decoded genesis hash of another length n
\* than 32 gives GenericError("Expected genesis hash to be 32 bytes but got n");
\* a header is built only for exactly 32 bytes, stored unchanged.
C13_GenesisHashValidation ==
  Returned =>
    /\ IsOk(DecodedGenesisHash) =>
         IF Len(DecodedGenesisHash.val) = 0
         THEN t_txn = Err("GenericError", <<"Genesis hash required">>)
         ELSE IF Len(DecodedGenesisHash.val) # 32
         THEN /\ NamesExpectedLength(t_txn)
              /\ t_txn.args[3] = Len(DecodedGenesisHash.val)
         ELSE IsOk(t_txn) => t_txn.val.header.genesis_hash = DecodedGenesisHash.val
    /\ IsOk(t_txn) => IsOk(DecodedGenesisHash) /\ Len(DecodedGenesisHash.val) = 32

\* an input whose genesis hash decodes to 33 bytes was refused with the error
\* that names both lengths
C13_Witness ==
  /\ Returned /\ IsOk(DecodedGenesisHash)
  /\ Len(DecodedGenesisHash.val) = 33
  /\ t_txn = Err("GenericError", <<"Expected genesis hash to be {} bytes but got {}", 32, 33>>)

\* the Transaction as estimate_size saw it during fee resolution: the header
\* carries the supplied fee value
MeasuredTransaction == [t_txn.val EXCEPT !.header.fee = t_in.fee]

\* the byte length of the encoded signed envelope of that Transaction
MeasuredLength == Len(SignedTransaction_encode(sign(MeasuredTransaction, 1)))

\* the larger of the minimum fee and f
FlooredFee(f) == IF U64Less(f, U64(MINIMUM_TX_FEE)) THEN U64(MINIMUM_TX_FEE) ELSE f

\* C6: for every transaction returned by Transaction::from_input, header.fee =
\* max(1000, F) with F the supplied fee when is_flat_fee is true and F = rate * L
\* (the exact product) when it is false, L being the byte length of the encoded
\* signed envelope of the transaction being built; so header.fee >= 1000.
C6_FeeResolution ==
  (t_src = "input" /\ IsOk(t_txn)) =>
    /\ ~U64Less(t_txn.val.header.fee, U64(MINIMUM_TX_FEE))
    /\ IF t_in.is_flat_fee
       THEN t_txn.val.header.fee = FlooredFee(t_in.fee)
       ELSE /\ ~MulOverflows(U64(MeasuredLength), t_in.fee)
            /\ t_txn.val.header.fee = FlooredFee(wrapping_mul(U64(MeasuredLength), t_in.fee))

\* an absent optional, an empty string or a zero-length byte string
IsDefaultValue(x) == x.t = "nil" \/ (x.t \in {"str", "bin"} /\ Len(x.v) = 0)

\* no record in x emits a key whose value is a default
RECURSIVE NoDefaultEmitted(_)
NoDefaultEmitted(x) ==
  x.t = "map" =>
    \A k \in 1..Len(x.v) : ~IsDefaultValue(x.v[k].val) /\ NoDefaultEmitted(x.v[k].val)

\* C7: in the canonical record of any Transaction (to_raw, then the encoding) no
\* key is emitted whose value is an absent optional, an empty string or a
\* zero-length byte string; a note of Some(empty) emits no 'note' key and an
\* empty genesis_id emits no 'gen' key.
C7_DefaultsOmitted ==
  IsOk(t_txn) => NoDefaultEmitted(RawTransaction_serialize(to_raw(t_txn.val)))

\* the keys of every record in x are strictly increasing in byte order
RECURSIVE KeysIncreasing(_)
KeysIncreasing(x) ==
  x.t = "map" =>
    /\ \A k \in 1..(Len(x.v) - 1) : StrCmp(x.v[k].key, x.v[k + 1].key, 1) = -1
    /\ \A k \in 1..Len(x.v) : KeysIncreasing(x.v[k].val)

\* C8: in every encoded record (the transaction record, the nested asset-parameter
\* and asset-id records, the signed envelope), for every combination of present
\* and absent optional fields, the emitted keys are strictly increasing in
\* lexicographic byte order.
C8_KeysSorted ==
  /\ IsOk(t_txn) => KeysIncreasing(RawTransaction_serialize(to_raw(t_txn.val)))
  /\ t_signed # None => KeysIncreasing(SignedTransaction_serialize(t_signed.val))

\* a signed envelope whose transaction record emits all 19 keys, with an
\* asset-parameter record of 8 keys and an asset-id record of 2
C8_Witness ==
  /\ t_signed # None
  /\ LET record == RawTransaction_serialize(t_signed.val.transaction).v
     IN  /\ Len(record) = Len(RawTransactionKeys)
         /\ Len(record[2].val.v) = 8
         /\ Len(record[3].val.v) = 2
  /\ KeysIncreasing(SignedTransaction_serialize(t_signed.val))

\* the keys that only one variant of transaction sets
VariantKeys(tx_type) ==
  CASE tx_type = "Payment" -> {<<97, 109, 116>>, <<114, 99, 118>>, <<99, 108, 111, 115, 101>>}
    [] tx_type = "KeyReg" -> {<<115, 101, 108, 107, 101, 121>>, <<118, 111, 116, 101, 102, 115, 116>>, <<118, 111, 116, 101, 107, 100>>, <<118, 111, 116, 101, 107, 101, 121>>, <<118, 111, 116, 101, 108, 115, 116>>}
    [] tx_type = "AssetConfig" -> {<<97, 112, 97, 114>>, <<99, 97, 105, 100>>}

\* the keys the canonical record of the Transaction emits
EmittedKeys(txn) ==
  LET record == RawTransaction_serialize(to_raw(txn)).v
  IN  {record[k].key : k \in 1..Len(record)}

\* C9: every Transaction returned by Transaction::from_input has exactly one of
\* payment_params, key_reg_params, asset_config_params present, the one that
\* matches tx_type, and its canonical record carries no field of another variant.
C9_VariantExclusive ==
  (t_src = "input" /\ IsOk(t_txn)) =>
    LET txn == t_txn.val
    IN  /\ txn.tx_type \in {"Payment", "KeyReg", "AssetConfig"}
        /\ (txn.payment_params # None) <=> (txn.tx_type = "Payment")
        /\ (txn.key_reg_params # None) <=> (txn.tx_type = "KeyReg")
        /\ (txn.asset_config_params # None) <=> (txn.tx_type = "AssetConfig")
        /\ \A other \in {"Payment", "KeyReg", "AssetConfig"} \ {txn.tx_type} :
             EmittedKeys(txn) \cap VariantKeys(other) = {}

\* from_input returned a key-registration transaction, built from an input of
\* that kind, whose record carries key-registration fields
C9_Witness ==
  /\ t_src = "input" /\ IsOk(t_txn)
  /\ t_in.kind = "KeyRegTransactionInput"
  /\ t_txn.val.key_reg_params # None
  /\ EmittedKeys(t_txn.val) \cap VariantKeys("KeyReg") # {}

\* from_input has returned a Transaction for an asset-configuration input
BuiltAssetConfig ==
  Returned /\ IsOk(t_txn) /\ t_in.kind = "AssetConfigTransactionInput"

\* the 32 payload bytes of an address text that is given, absent otherwise
SuppliedAddressBytes(o) ==
  IF o = None THEN None ELSE Some(SubSeq(base32_decode(o.val).val, 1, 32))

ControlAddressSupplied ==
  \/ t_in.manager # None \/ t_in.reserve # None
  \/ t_in.freeze # None \/ t_in.clawback # None

\* C14: for every AssetConfigTransactionInput that builds, asset_params is
\* present if and only if one of manager, reserve, freeze, clawback was supplied;
\* when present it holds exactly the supplied control addresses, each as its 32
\* decoded bytes, and every other asset parameter is absent; when absent the
\* canonical record has no 'apar' key.
C14_AssetParamsPresence ==
  BuiltAssetConfig =>
    LET asset_params == t_txn.val.asset_config_params.val.asset_params
    IN  /\ (asset_params # None) <=> ControlAddressSupplied
        /\ asset_params # None =>
             /\ asset_params.val.manager = SuppliedAddressBytes(t_in.manager)
             /\ asset_params.val.reserve = SuppliedAddressBytes(t_in.reserve)
             /\ asset_params.val.freeze = SuppliedAddressBytes(t_in.freeze)
             /\ asset_params.val.clawback = SuppliedAddressBytes(t_in.clawback)
             /\ asset_params.val.asset_name = None
             /\ asset_params.val.default_frozen = None
             /\ asset_params.val.total = None
             /\ asset_params.val.unit_name = None
             /\ <<97, 112, 97, 114>> \in EmittedKeys(t_txn.val)
        /\ asset_params = None => <<97, 112, 97, 114>> \notin EmittedKeys(t_txn.val)

\* an asset-configuration input that supplies only the clawback address was built
C14_Witness ==
  /\ BuiltAssetConfig
  /\ t_in.manager = None /\ t_in.reserve = None /\ t_in.freeze = None
  /\ t_in.clawback # None
  /\ t_txn.val.asset_config_params.val.asset_params # None

\* an asset-configuration input that supplies no control address was built
C14_WitnessAbsent ==
  BuiltAssetConfig /\ ~ControlAddressSupplied
    /\ t_txn.val.asset_config_params.val.asset_params = None

\* the byte string 'TX' followed by the canonical bytes of the Transaction
SignablePayload == <<84, 88>> \o rmp_encode(RawTransaction_serialize(to_raw(t_txn.val)))

\* st is what signing the payload by one of the accounts gives: that account's
\* signature of the payload, the base-32 text of the hash of the payload, no
\* multisignature blob, and the canonical projection of the Transaction
SignsPayload(st, accounts, payload) ==
  /\ \E a \in accounts : st.signature = Account_sign(a, payload)
  /\ st.txn_id = base32_encode(Sha512Trunc256(payload))
  /\ st.multisig_sig = None
  /\ st.transaction = to_raw(t_txn.val)

C16_ConstructionDeterminism ==
  Returned =>
    \E overflow_checks \in BOOLEAN :
      \A account \in Accounts : from_input(t_in, account, overflow_checks) = t_txn

\* from_input returned a transaction whose fee is the product of a rate and the
\* size that estimate_size measured with a keypair of its own, above the minimum
C16_Witness ==
  /\ Returned /\ IsOk(t_txn)
  /\ ~t_in.is_flat_fee
  /\ t_in.fee = U64(4)
  /\ t_txn.val.header.fee = wrapping_mul(U64(MeasuredLength), U64(4))
  /\ U64Less(U64(MINIMUM_TX_FEE), t_txn.val.header.fee)

\* C17: for every construction input of the three variants (a key-registration
\* input whose vote_pk or selection_pk decodes to a length other than 32
\* included), Transaction::from_input terminates by returning a Transaction or
\* an error value; it never aborts abnormally.
C17_ErrorsReturned ==
  Returned => (IsOk(t_txn) \/ t_txn.tag = "Err")

\* an envelope was encoded for a transaction that from_input built with a
\* per-byte fee
EncodedPerByteFee ==
  t_pc = "encoded" /\ t_src = "input" /\ ~t_in.is_flat_fee

\* the number of bytes the encoding takes for an unsigned integer: 1 below 128,
\* 2 below 2^8, 3 below 2^16, 5 below 2^32, 9 from there on
EncodedUintWidth(a) ==
  IF U64Less(a, U64(128)) THEN 1
  ELSE IF U64Less(a, U64(256)) THEN 2
  ELSE IF U64Less(a, U64(65536)) THEN 3
  ELSE IF \A i \in 5..U64_LIMBS : a[i] = 0 THEN 5
  ELSE 9

\* C18 as stated: when is_flat_fee is false, the size measured by estimate_size
\* during construction equals the byte length of encode(sign(T, a)) for the
\* final transaction T and any account a: writing the resolved fee into the
\* header does not change the size of the encoded envelope.
C18_EstimateIsFixedPoint ==
  EncodedPerByteFee => Len(t_bytes) = MeasuredLength

\* C18 as amended: estimate_size measures the envelope of the transaction whose
\* header.fee is still the supplied rate, and the resolved fee is the floored
\* product of the rate and that size; the envelope of the final transaction,
\* signed by any account, is longer than the measured size by the width of the
\* encoded resolved fee less the width of the encoded rate, and has the measured
\* size only when the two widths are equal.
C18_EstimateUpToFeeWidth ==
  EncodedPerByteFee =>
    /\ t_txn.val.header.fee = FlooredFee(wrapping_mul(U64(MeasuredLength), t_in.fee))
    /\ Len(t_bytes) = MeasuredLength + EncodedUintWidth(t_txn.val.header.fee)
                                      - EncodedUintWidth(t_in.fee)

\* rate 4: the rate takes one byte, the resolved fee three, and the final
\* envelope is two bytes longer than the measured one
C18_Witness ==
  /\ EncodedPerByteFee
  /\ t_in.fee = U64(4)
  /\ EncodedUintWidth(t_txn.val.header.fee) = 3
  /\ Len(t_bytes) = MeasuredLength + 2

\* the transaction assembled from the input before fee resolution, with the
\* given fee in its header
AssembledWithFee(fee) ==
  LET built == build_header(t_in).val
  IN  [ tx_type |-> built[1],
        header |-> [built[2] EXCEPT !.fee = fee],
        payment_params |-> build_payment_params(t_in).val,
        key_reg_params |-> build_key_reg_params(t_in).val,
        asset_config_params |-> build_asset_config_params(t_in).val ]

\* C19: modify_final_transaction changes only header.fee: tx_type, sender,
\* first_valid, last_valid, note, genesis_id, genesis_hash, group (always
\* absent) and all variant parameters of the returned transaction are those of
\* the transaction assembled from the input before fee resolution, and
\* estimate_size and sign leave the transaction they read unchanged.
C19_FeeResolutionFrame ==
  (t_src = "input" /\ IsOk(t_txn)) =>
    /\ t_txn.val = AssembledWithFee(t_txn.val.header.fee)
    /\ t_txn.val.header.group = None
    /\ t_txn.val.header.note = t_in.note
    /\ t_txn.val.header.genesis_id = t_in.genesis_id
    /\ t_txn.val.header.first_valid = t_in.first_round
    /\ t_txn.val.header.last_valid = t_in.last_round

\* a transaction with a note and a genesis id whose fee was raised to the
\* minimum was built, signed and encoded
C19_Witness ==
  /\ t_src = "input" /\ t_pc = "encoded"
  /\ t_in.note # None /\ t_in.genesis_id # <<>>
  /\ t_txn.val.header.fee # t_in.fee
  /\ t_txn.val.header.fee = U64(MINIMUM_TX_FEE)
  /\ t_txn.val = AssembledWithFee(U64(MINIMUM_TX_FEE))

\* the outcome of the i-th step of from_input before fee resolution
StepOutcome(i) ==
  CASE i = 1 -> build_header(t_in)
    [] i = 2 -> build_payment_params(t_in)
    [] i = 3 -> build_key_reg_params(t_in)
    [] i = 4 -> build_asset_config_params(t_in)

FailingSteps == {i \in 1..4 : ~IsOk(StepOutcome(i))}

EarliestFailingStep == CHOOSE i \in FailingSteps : \A j \in FailingSteps : i <= j

\* the genesis hash is examined before the sender address
GenesisHashFirst ==
  /\ ~IsOk(DecodedGenesisHash) => t_txn = DecodedGenesisHash
  /\ (IsOk(DecodedGenesisHash) /\ Len(DecodedGenesisHash.val) # DIGEST_BYTE_LENGTH)
       => IsErr(t_txn, "GenericError")

\* C20: from_input runs genesis-hash decode, emptiness and length, sender
\* address, payment parameters, key-registration parameters, asset-config
\* parameters and fee resolution in this order; when a step fails the error
\* returned is that of the earliest failing step, and fee resolution is not
\* executed.
C20_ValidationOrder ==
  (Returned /\ FailingSteps # {}) =>
    /\ t_txn.tag = "Err"
    /\ t_txn = StepOutcome(EarliestFailingStep)
    /\ GenesisHashFirst

\* the order alone: the outcome of from_input, an error or an abort, is that of
\* the earliest step that does not succeed
EarliestStepDecides ==
  (Returned /\ FailingSteps # {}) =>
    /\ t_txn = StepOutcome(EarliestFailingStep)
    /\ GenesisHashFirst

\* the state between two iterations holds fewer than `most` + 1 pending bits,
\* shifting `value` past them loses no bit of the 32, the accumulator stays
\* below 2^18 and the counter of `width` bits does not overflow when `unit` is
\* added
StepBounded(st, value, most, unit, width) ==
  /\ st.number_of_bit <= most
  /\ st.buffer < Pow2(st.number_of_bit)
  /\ Shl32(value, st.number_of_bit) = value * Pow2(st.number_of_bit)
  /\ BitOr(st.buffer, Shl32(value, st.number_of_bit)) < Pow2(18)
  /\ st.number_of_bit + unit < Pow2(width)

\* the bounds at every iteration of to_u11_array(arr), the last state included
U11Bounded(arr) ==
  \A k \in 0..Len(arr) :
    Let(U11Loop(SubSeq(arr, 1, k), 1, 0, 0, <<>>),
        LAMBDA st : StepBounded(st, IF k < Len(arr) THEN arr[k + 1] ELSE 0, 10, 8, 16))

\* the bounds at every iteration of to_byte_array(arr), the last state included
ByteBounded(arr) ==
  \A k \in 0..Len(arr) :
    Let(ByteLoop(SubSeq(arr, 1, k), 1, 0, 0, <<>>),
        LAMBDA st : StepBounded(st, IF k < Len(arr) THEN arr[k + 1] ELSE 0, 7, 11, 8))

\* the indices that seed_from_mnemonic hands to to_byte_array, <<>> when it
\* returns before
UnpackedUnits ==
  LET words == Split(m_phrase)
  IN  IF Len(words) - 1 # MNEMONIC_PHRASE_WORD_COUNT THEN <<>>
      ELSE Let(ValidateWords(SubSeq(words, 1, Len(words) - 1)),
               LAMBDA mapped : IF IsOk(mapped) THEN mapped.val ELSE <<>>)

\* C21: in to_u11_array over bytes and in to_byte_array over 11-bit units the
\* accumulator stays below 2^18 at every step; between iterations it is below
\* 2^number_of_bit with number_of_bit <= 10 (to_u11_array) or <= 7
\* (to_byte_array); no bit is shifted out of the 32-bit accumulator and the bit
\* counters do not overflow.
C21_AccumulatorBounds ==
  /\ m_pc \in {"phrase", "failed"} => U11Bounded(m_seed)
  /\ m_pc = "decoded" => ByteBounded(UnpackedUnits)

\* a seed of 32 bytes was packed with the accumulator reaching 2^17 with 10
\* pending bits, and its phrase unpacked with the accumulator reaching 2^17
\* with 7 pending bits
C21_Witness ==
  /\ m_pc = "decoded" /\ m_src = "seed" /\ m_edit = <<>> /\ IsOk(m_res)
  /\ \E k \in 1..Len(m_seed) :
       Let(U11Loop(SubSeq(m_seed, 1, k - 1), 1, 0, 0, <<>>),
           LAMBDA st : /\ st.number_of_bit = 10
                       /\ BitOr(st.buffer, Shl32(m_seed[k], 10)) >= Pow2(17))
  /\ \E k \in 1..Len(UnpackedUnits) :
       Let(ByteLoop(SubSeq(UnpackedUnits, 1, k - 1), 1, 0, 0, <<>>),
           LAMBDA st : /\ st.number_of_bit = 7
                       /\ BitOr(st.buffer, Shl32(UnpackedUnits[k], 7)) >= Pow2(17))

\* C22: for every sequence of 24 indices in 0..2047 to_byte_array returns
\* exactly 33 bytes, so that seed_from_mnemonic never answers "Failed to decode
\* mnemonic", and the 33rd byte is zero exactly when the 24th index is below 8.
C22_UnpackedLength ==
  (m_pc = "decoded" /\ Len(UnpackedUnits) = MNEMONIC_PHRASE_WORD_COUNT) =>
    /\ Let(to_byte_array(UnpackedUnits),
           LAMBDA entropy :
             /\ Len(entropy) = 33
             /\ entropy[33] = 0 <=> UnpackedUnits[MNEMONIC_PHRASE_WORD_COUNT] < 8)
    /\ m_res # Err("GenericError", "Failed to decode mnemonic")

\* a phrase whose 24th word has index 7 was unpacked and its 33rd byte let
\* through
C22_Witness ==
  /\ m_pc = "decoded"
  /\ Len(UnpackedUnits) = MNEMONIC_PHRASE_WORD_COUNT
  /\ UnpackedUnits[MNEMONIC_PHRASE_WORD_COUNT] = 7
  /\ m_res # Err("GenericError", "Failed to decode mnemonic bytes")

\* a phrase whose 24th word has index 8 was unpacked and refused for its 33rd
\* byte
C22_WitnessNonZero ==
  /\ m_pc = "decoded"
  /\ Len(UnpackedUnits) = MNEMONIC_PHRASE_WORD_COUNT
  /\ UnpackedUnits[MNEMONIC_PHRASE_WORD_COUNT] = 8
  /\ m_res = Err("GenericError", "Failed to decode mnemonic bytes")

\* C23: for every phrase p accepted by seed_from_mnemonic,
\* mnemonic_from_seed(seed_from_mnemonic(p)) returns exactly p, so that a seed
\* has exactly one accepted phrase.
C23_ReverseRoundTrip ==
  (m_pc = "decoded" /\ IsOk(m_res)) => mnemonic_from_seed(m_res.val) = Ok(m_phrase)

\* a phrase was accepted after one of its data words was replaced; it decodes
\* to another seed than the one the phrase was made from, and that seed gives
\* the edited phrase back
C23_Witness ==
  /\ m_pc = "decoded" /\ m_src = "seed" /\ IsOk(m_res)
  /\ Len(m_edit) = 2 /\ m_edit[1] \in 1..MNEMONIC_PHRASE_WORD_COUNT
  /\ m_res.val # m_seed
  /\ mnemonic_from_seed(m_res.val) = Ok(m_phrase)

\* C24: for every per-byte rate and is_flat_fee false, from_input completes and
\* the resolved fee is the exact product of the rate and the measured size,
\* floored at the minimum fee: the product does not wrap modulo 2^64 and the
\* multiplication does not abort.
C24_FeeProductExact ==
  (Returned /\ ~t_in.is_flat_fee /\ FailingSteps = {}) =>
    /\ t_txn.tag # "Panic"
    /\ Let(U64(Len(SignedTransaction_encode(sign(AssembledWithFee(t_in.fee), 1)))),
           LAMBDA estimated_size :
             /\ ~MulOverflows(estimated_size, t_in.fee)
             /\ IsOk(t_txn)
             /\ t_txn.val.header.fee = FlooredFee(wrapping_mul(estimated_size, t_in.fee)))

\* C25: every string accepted by Address::from_string is the canonical
\* 58-character encoding of the address it decodes to: from_string(s) = Ok(a)
\* implies a.to_string() = s; no string of another length, case or trailing-bit
\* pattern is accepted.
C25_CanonicalAcceptance ==
  (a_pc = "decoded" /\ IsOk(a_res)) =>
    /\ Len(a_str) = 58
    /\ Address_to_string(a_res.val) = a_str

=============================================================================
